---------------------------- MODULE Spec2Model ----------------------------
(***************************************************************************)
(* Model of the data-series transformation code of the xy chart:           *)
(*   stacked_series_utils.ts  (src/unnamed/part_001, lines 1-266)          *)
(*   series.ts                (src/unnamed/part_001, lines 268-863)        *)
(* JavaScript values are modelled by what the operators of the language do *)
(* on them: numbers are exact rationals plus NaN and the two infinities,   *)
(* null and undefined are values of their own, strings are sequences of    *)
(* one-character strings.                                                  *)
(***************************************************************************)
EXTENDS Integers, Sequences, FiniteSets, TLC

VARIABLES
    pc,                \* which call, if any, has returned
    seriesSpecs,       \* BasicSeriesSpec[] handed to getSplittedSeries
    deselectedDataSeries, \* SeriesIdentifier[] handed to getSplittedSeries
    splittedSeries,    \* what getSplittedSeries returned last
    runs,              \* the DataSeries[] of each run of the pipeline so far
    seriesIdentifier,  \* XYChartSeriesIdentifier handed to getSeriesName
    hasSingleSeries,   \* hasSingleSeries handed to getSeriesName
    seriesName,        \* what getSeriesName returned
    dataseries,        \* RawDataSeries[] handed to formatStackedDataSeriesValues
    xValues,           \* Set<string | number> in insertion order (no repeats)
    scaleToExtent, isPercentageMode, xScaleType,
    stackedValues,     \* Map<x, StackedValues> (the const of line 133)
    stackedDataSeries, \* DataSeries[] returned by formatStackedDataSeriesValues
    idA, idB,          \* two series identifiers handed to getSeriesKey
    keyA, keyB,        \* the keys getSeriesKey returned for them
    seriesCollection,  \* the series keys of a collection, in iteration order
    vizColors, customColors, temporary, persisted,
    seriesColorMap,    \* the Map returned by getSeriesColors
    seriesSpec,        \* the series spec handed to splitSeries
    splitResult        \* {rawDataSeries, colorsValues, xValues} of splitSeries

vars == <<pc, dataseries, xValues, scaleToExtent, isPercentageMode, xScaleType,
          stackedValues, stackedDataSeries, idA, idB, keyA, keyB,
          seriesCollection, vizColors, customColors, temporary, persisted,
          seriesColorMap, seriesSpec, splitResult,
          seriesSpecs, deselectedDataSeries, splittedSeries, runs,
          seriesIdentifier, hasSingleSeries, seriesName>>

---------------------------------------------------------------------------
(* JavaScript values.  Every value is a record of the same shape:          *)
(*   k: the kind; n/d: numerator and denominator of a number, the sign of  *)
(*   an infinity, the identity of an object; s: the characters of a string *)

Abs(i) == IF i < 0 THEN -i ELSE i

RECURSIVE Gcd(_, _)
Gcd(a, b) == IF b = 0 THEN a ELSE Gcd(b, a % b)

Sign(i) == IF i < 0 THEN -1 ELSE IF i = 0 THEN 0 ELSE 1

JsVal(k, n, d, s) == [k |-> k, n |-> n, d |-> d, s |-> s]

NULL == JsVal("null", 0, 1, <<>>)
UNDEFINED == JsVal("undefined", 0, 1, <<>>)
NAN == JsVal("NaN", 0, 1, <<>>)
Infinity(sign) == JsVal("Infinity", sign, 1, <<>>)
JsTrue == JsVal("boolean", 1, 1, <<>>)
JsFalse == JsVal("boolean", 0, 1, <<>>)
Obj(id) == JsVal("object", id, 1, <<>>)
Str(chars) == JsVal("string", 0, 1, chars)

\* the number n/d, in lowest terms with a positive denominator (d # 0)
Rat(n, d) ==
    LET g == Gcd(Abs(n), Abs(d))
    IN  JsVal("number", Sign(d) * (n \div g), Abs(d) \div g, <<>>)

Num(i) == JsVal("number", i, 1, <<>>)

\* typeof v === 'number' (NaN and the infinities are numbers)
IsNumberType(v) == v.k \in {"number", "NaN", "Infinity"}
IsStringType(v) == v.k = "string"
\* v == null, v != null (loose equality: null and undefined)
IsNullish(v) == v.k \in {"null", "undefined"}
IsFinite(v) == v.k = "number"

\* ToBoolean, as used by ||, && and if
Truthy(v) ==
    CASE v.k \in {"null", "undefined", "NaN"} -> FALSE
      [] v.k = "number" -> v.n # 0
      [] v.k = "boolean" -> v.n = 1
      [] v.k = "string" -> Len(v.s) > 0
      [] OTHER -> TRUE

\* a || b
JsOr(a, b) == IF Truthy(a) THEN a ELSE b

Digits == <<"0", "1", "2", "3", "4", "5", "6", "7", "8", "9">>

IsDigit(c) == \E i \in 1..Len(Digits) : Digits[i] = c
DigitValue(c) == (CHOOSE i \in 1..Len(Digits) : Digits[i] = c) - 1

RECURSIVE DigitsValue(_, _)
DigitsValue(chars, acc) ==
    IF chars = <<>> THEN acc
    ELSE DigitsValue(Tail(chars), acc * Len(Digits) + DigitValue(Head(chars)))

AllDigits(chars) == chars # <<>> /\ \A i \in 1..Len(chars) : IsDigit(chars[i])

\* StringToNumber on the strings of the model: the empty string is 0, a decimal
\* integer with an optional sign is that integer, anything else is NaN
StringToNumber(chars) ==
    CASE chars = <<>> -> Num(0)
      [] AllDigits(chars) -> Num(DigitsValue(chars, 0))
      [] Head(chars) = "-" /\ AllDigits(Tail(chars)) -> Num(-DigitsValue(Tail(chars), 0))
      [] OTHER -> NAN

\* ToNumber, the conversion Number(v) and the arithmetic operators apply
ToNumber(v) ==
    CASE IsNumberType(v) -> v
      [] v.k = "null" -> Num(0)
      [] v.k = "boolean" -> Num(v.n)
      [] v.k = "string" -> StringToNumber(v.s)
      [] OTHER -> NAN

\* a + b on operands that are not strings (numbers, null, undefined)
JsAdd(a, b) ==
    LET x == ToNumber(a)
        y == ToNumber(b)
    IN  CASE x.k = "NaN" \/ y.k = "NaN" -> NAN
          [] x.k = "Infinity" /\ y.k = "Infinity" -> IF x.n = y.n THEN x ELSE NAN
          [] x.k = "Infinity" -> x
          [] y.k = "Infinity" -> y
          [] OTHER -> Rat(x.n * y.d + y.n * x.d, x.d * y.d)

\* a - b
JsSub(a, b) ==
    LET y == ToNumber(b)
    IN  JsAdd(a, IF y.k = "NaN" THEN NAN ELSE JsVal(y.k, -y.n, y.d, <<>>))

\* a / b (the sign of a zero is not kept: x / 0 is +Infinity or -Infinity by
\* the sign of x)
JsDiv(a, b) ==
    LET x == ToNumber(a)
        y == ToNumber(b)
    IN  CASE x.k = "NaN" \/ y.k = "NaN" -> NAN
          [] x.k = "Infinity" /\ y.k = "Infinity" -> NAN
          [] x.k = "Infinity" -> Infinity(IF y.n < 0 THEN -x.n ELSE x.n)
          [] y.k = "Infinity" -> Num(0)
          [] y.n = 0 -> IF x.n = 0 THEN NAN ELSE Infinity(Sign(x.n))
          [] OTHER -> Rat(x.n * y.d, x.d * y.n)

\* a === b (NaN equals nothing, not even itself; strict equality converts nothing)
StrictEq(a, b) == a.k # "NaN" /\ a = b

\* isNaN(v) of a number
IsNaN(v) == v.k = "NaN"

\* the characters of the model's strings, in the order of their code units
CodeUnits ==
    <<"-", "0", "1", "2", "3", "4", "5", "6", "7", "8", "9", "I", "N",
      "a", "b", "c", "d", "e", "f", "g", "h", "i", "j", "k", "l", "m",
      "n", "o", "p", "q", "r", "s", "t", "u", "v", "w", "x", "y", "z",
      "{", "|", "}">>

CodeUnit(c) == CHOOSE i \in 1..Len(CodeUnits) : CodeUnits[i] = c

\* a < b of two strings: by code units, a proper prefix first
RECURSIVE StringLess(_, _)
StringLess(a, b) ==
    CASE b = <<>> -> FALSE
      [] a = <<>> -> TRUE
      [] Head(a) # Head(b) -> CodeUnit(Head(a)) < CodeUnit(Head(b))
      [] OTHER -> StringLess(Tail(a), Tail(b))

\* x < y of two numbers that are not NaN
NumberLess(x, y) ==
    CASE x.k = "Infinity" /\ y.k = "Infinity" -> x.n < y.n
      [] x.k = "Infinity" -> x.n < 0
      [] y.k = "Infinity" -> y.n > 0
      [] OTHER -> x.n * y.d < y.n * x.d

\* x > y of two numbers: false when either is NaN
NumberGreater(x, y) == x.k # "NaN" /\ y.k # "NaN" /\ NumberLess(y, x)

\* a > b: two strings compare as strings, anything else as numbers, and a
\* comparison with NaN is false
JsGreater(a, b) ==
    IF IsStringType(a) /\ IsStringType(b) THEN StringLess(b.s, a.s)
    ELSE NumberGreater(ToNumber(a), ToNumber(b))

RECURSIVE NaturalToString(_)
NaturalToString(i) ==
    IF i < Len(Digits) THEN <<Digits[i + 1]>>
    ELSE Append(NaturalToString(i \div Len(Digits)), Digits[(i % Len(Digits)) + 1])

\* ToString, as a template literal applies it (of a number: an integer only)
JsToString(v) ==
    CASE v.k = "string" -> v.s
      [] v.k = "number" /\ v.d = 1 ->
            IF v.n < 0 THEN <<"-">> \o NaturalToString(-v.n) ELSE NaturalToString(v.n)
      [] v.k = "NaN" -> <<"N", "a", "N">>
      [] v.k = "Infinity" ->
            (IF v.n < 0 THEN <<"-">> ELSE <<>>) \o <<"I", "n", "f", "i", "n", "i", "t", "y">>
      [] v.k = "null" -> <<"n", "u", "l", "l">>
      [] v.k = "undefined" -> <<"u", "n", "d", "e", "f", "i", "n", "e", "d">>
      [] v.k = "boolean" ->
            IF v.n = 1 THEN <<"t", "r", "u", "e">> ELSE <<"f", "a", "l", "s", "e">>

\* v < 0 of a comparator's result
IsNegative(v) == v.k \in {"number", "Infinity"} /\ v.n < 0

---------------------------------------------------------------------------
(* Arrays are sequences; the code's indexes count from 0.                  *)

\* arr[i]: undefined beyond the end
At(arr, i) == IF i + 1 \in DOMAIN arr THEN arr[i + 1] ELSE UNDEFINED

\* arr[i] = v of an existing index
SetAt(arr, i, v) == [arr EXCEPT ![i + 1] = v]

\* new Array(n).fill(v)
ArrayFill(n, v) == [i \in 1..n |-> v]

Range(seq) == {seq[i] : i \in DOMAIN seq}

RECURSIVE Reverse(_)
Reverse(seq) == IF seq = <<>> THEN <<>> ELSE Append(Reverse(Tail(seq)), Head(seq))

\* Set.delete on a Set kept in insertion order
SeqDelete(seq, v) == SelectSeq(seq, LAMBDA e : e # v)

\* Map.set on a Map whose iteration order the code does not depend on
MapSet(map, key, value) ==
    [k \in DOMAIN map \cup {key} |-> IF k = key THEN value ELSE map[k]]

EmptyMap == [k \in {} |-> NULL]

---------------------------------------------------------------------------
(* stacked_series_utils.ts                                                 *)

Ordinal == "ordinal"
Linear == "linear"

RawDataSeriesDatum(x, y1, y0, mark, datum) ==
    [x |-> x, y1 |-> y1, y0 |-> y0, mark |-> mark, datum |-> datum]

\* a predicate that orders nothing
DatumXSortPredicateUnordered(scaleType, a, b) == Num(0)

\* datumXSortPredicate(xScaleType)(a, b)
DatumXSortPredicate(scaleType, a, b) ==
    IF scaleType = Ordinal \/ IsStringType(a.x) \/ IsStringType(b.x)
    THEN Num(0)
    ELSE JsSub(a.x, b.x)

\* sortIndex = Infinity of the destructuring at line 731: the default stands
\* in for undefined only
SortIndexOf(option) ==
    IF option.sortIndex.k = "undefined" THEN Infinity(1) ELSE option.sortIndex

\* the comparator of getSeriesNameFromOptions, a - b on the two sort indexes
\* (line 731)
SortIndexOrder(a, b) == JsSub(SortIndexOf(a), SortIndexOf(b))

\* the comparator of getSeriesKey, ([a], [b]) => (a > b ? 1 : -1), on two
\* entries of splitAccessors (line 471)
SplitAccessorOrder(a, b) == IF JsGreater(a.key, b.key) THEN Num(1) ELSE Num(-1)

\* the order of sort() without a comparator, on the strings of two elements
\* that are not undefined (line 715)
DefaultOrder(a, b) ==
    IF StringLess(a, b) THEN Num(-1) ELSE IF StringLess(b, a) THEN Num(1) ELSE Num(0)

(* Array.prototype.sort as the engine runs it on arrays shorter than 64     *)
(* elements (V8, array-sort.tq): the leading run is counted and, when it   *)
(* descends strictly, reversed; the remaining elements are inserted by     *)
(* binary search.  comparefn names the comparator.                     *)
\* the comparators handed to sort
CompareFn(comparefn, a, b) ==
    CASE comparefn.fn = "datumXSortPredicate" ->
            DatumXSortPredicate(comparefn.scaleType, a, b)
      [] comparefn.fn = "splitAccessorOrder" ->
            SplitAccessorOrder(a, b)
      [] comparefn.fn = "default" ->
            DefaultOrder(JsToString(a), JsToString(b))
      [] comparefn.fn = "sortIndexOrder" ->
            SortIndexOrder(a, b)

\* comparefn(a, b) < 0
Less(comparefn, a, b) == IsNegative(CompareFn(comparefn, a, b))

RECURSIVE RunLength(_, _, _, _)
RunLength(comparefn, arr, isDescending, idx) ==
    IF idx > Len(arr) THEN idx - 1
    ELSE IF isDescending # Less(comparefn, arr[idx], arr[idx - 1]) THEN idx - 1
    ELSE RunLength(comparefn, arr, isDescending, idx + 1)

\* the array with its leading run, of length run, made ascending
MakeRun(arr, isDescending, run) ==
    [run |-> run,
     arr |-> IF isDescending
             THEN Reverse(SubSeq(arr, 1, run)) \o SubSeq(arr, run + 1, Len(arr))
             ELSE arr]

CountRun(comparefn, arr, isDescending) ==
    MakeRun(arr, isDescending, RunLength(comparefn, arr, isDescending, 3))

CountAndMakeRun(comparefn, arr) ==
    CountRun(comparefn, arr, Less(comparefn, arr[2], arr[1]))

RECURSIVE BinarySearch(_, _, _, _, _)
BinarySearch(comparefn, arr, pivot, left, right) ==
    IF left >= right THEN left
    ELSE IF Less(comparefn, pivot, arr[left + ((right - left) \div 2)])
         THEN BinarySearch(comparefn, arr, pivot, left, left + ((right - left) \div 2))
         ELSE BinarySearch(comparefn, arr, pivot, left + ((right - left) \div 2) + 1, right)

\* the element at start moved to left, the elements between shifted right
Inserted(arr, start, left) ==
    SubSeq(arr, 1, left - 1) \o <<arr[start]>>
    \o SubSeq(arr, left, start - 1)
    \o SubSeq(arr, start + 1, Len(arr))

RECURSIVE BinaryInsertionSort(_, _, _)
BinaryInsertionSort(comparefn, arr, start) ==
    IF start > Len(arr) THEN arr
    ELSE BinaryInsertionSort(
            comparefn,
            Inserted(arr, start, BinarySearch(comparefn, arr, arr[start], 1, start)),
            start + 1)

SortAfterRun(comparefn, made) == BinaryInsertionSort(comparefn, made.arr, made.run + 1)

ArraySort(comparefn, arr) ==
    IF Len(arr) < 2 THEN arr
    ELSE SortAfterRun(comparefn, CountAndMakeRun(comparefn, arr))

\* the body of ds.data.forEach in getYValueStackMap (lines 52-59)
StackMapOfDatum(acc, datum, index, length, xs) ==
    LET stack == IF datum.x \in DOMAIN acc.stackMap
                 THEN acc.stackMap[datum.x]
                 ELSE ArrayFill(length, Num(0))
    IN  [stackMap |-> MapSet(acc.stackMap, datum.x, SetAt(stack, index, datum.y1)),
         missingXValues |-> IF datum.x \in Range(xs)
                            THEN acc.missingXValues \ {datum.x}
                            ELSE acc.missingXValues]

RECURSIVE StackMapOfData(_, _, _, _, _)
StackMapOfData(acc, data, index, length, xs) ==
    IF data = <<>> THEN acc
    ELSE StackMapOfData(StackMapOfDatum(acc, Head(data), index, length, xs),
                        Tail(data), index, length, xs)

\* the loop over missingXValues in getYValueStackMap (lines 61-66): every x
\* still missing gets a 0 at the series' index
StackMapOfMissing(acc, index, length) ==
    [stackMap |->
        [x \in DOMAIN acc.stackMap \cup acc.missingXValues |->
            IF x \in acc.missingXValues
            THEN SetAt(IF x \in DOMAIN acc.stackMap
                       THEN acc.stackMap[x]
                       ELSE ArrayFill(length, Num(0)),
                       index, Num(0))
            ELSE acc.stackMap[x]],
     missingXValues |-> acc.missingXValues]

RECURSIVE StackMapOfSeries(_, _, _, _)
StackMapOfSeries(acc, series, index, xs) ==
    IF index >= Len(series) THEN acc
    ELSE StackMapOfSeries(
            StackMapOfMissing(
                StackMapOfData(acc, At(series, index).data, index, Len(series), xs),
                index, Len(series)),
            series, index + 1, xs)

\* getYValueStackMap(dataseries, xValues): missingXValues is one Set for all
\* the series
GetYValueStackMap(series, xs) ==
    StackMapOfSeries([stackMap |-> EmptyMap, missingXValues |-> Range(xs)],
                     series, 0, xs).stackMap

\* the reducer with the value of the series alone where the code adds it to the
\* stack below
StackReducerNotCumulative(acc, currentValue, index, extent) ==
    IF Len(acc.values) = 0
    THEN IF extent
         THEN [values |-> <<currentValue, currentValue>>, total |-> currentValue]
         ELSE [values |-> <<Num(0), currentValue>>, total |-> currentValue]
    ELSE [values |-> Append(acc.values, JsAdd(Num(0), currentValue)),
          total |-> JsAdd(acc.total, currentValue)]

\* the reducer of computeYStackedMapValues (lines 86-103)
StackReducer(acc, currentValue, index, extent) ==
    IF Len(acc.values) = 0
    THEN IF extent
         THEN [values |-> <<currentValue, currentValue>>, total |-> currentValue]
         ELSE [values |-> <<Num(0), currentValue>>, total |-> currentValue]
    ELSE [values |-> Append(acc.values, JsAdd(At(acc.values, index), currentValue)),
          total |-> JsAdd(acc.total, currentValue)]

RECURSIVE StackReduce(_, _, _, _)
StackReduce(acc, yStackArray, index, extent) ==
    IF index >= Len(yStackArray) THEN acc
    ELSE StackReduce(StackReducer(acc, At(yStackArray, index), index, extent),
                     yStackArray, index + 1, extent)

\* the percent with the operands of the division swapped
PercentOfSwapped(value, total) ==
    IF StrictEq(total, Num(0)) THEN Num(0) ELSE JsDiv(total, value)

\* the percent of one cumulative value (lines 109-114)
PercentOf(value, total) ==
    IF StrictEq(total, Num(0)) THEN Num(0) ELSE JsDiv(value, total)

\* StackedValues of one x (lines 85-119)
StackedValuesOf(yStackArray, extent) ==
    LET stackArray == StackReduce([values |-> <<>>, total |-> Num(0)],
                                  yStackArray, 0, extent)
    IN  [values |-> stackArray.values,
         percent |-> [i \in DOMAIN stackArray.values |->
                         PercentOf(stackArray.values[i], stackArray.total)],
         total |-> stackArray.total]

\* computeYStackedMapValues(yValueStackMap, scaleToExtent)
ComputeYStackedMapValues(yValueStackMap, extent) ==
    [x \in DOMAIN yValueStackMap |-> StackedValuesOf(yValueStackMap[x], extent)]

\* a DataSeriesDatum; filled is <<>> when the datum has no filled property and
\* <<f>> when it has the FilledValues f
DataSeriesDatum(x, y1, y0, initialY1, initialY0, mark, datum, filled) ==
    [x |-> x, y1 |-> y1, y0 |-> y0, initialY1 |-> initialY1,
     initialY0 |-> initialY0, mark |-> mark, datum |-> datum, filled |-> filled]

\* y1 before stacking without the guard on a zero total
OwnY1Unguarded(data, stack, percentage) ==
    IF percentage
    THEN IF ~IsNullish(data.y1) THEN JsDiv(data.y1, stack.total) ELSE NULL
    ELSE data.y1

\* y1 and y0 before stacking (lines 198-212)
OwnY1(data, stack, percentage) ==
    IF percentage
    THEN IF ~IsNullish(data.y1)
         THEN IF ~StrictEq(stack.total, Num(0))
              THEN JsDiv(data.y1, stack.total) ELSE Num(0)
         ELSE NULL
    ELSE data.y1

OwnY0(data, stack, percentage) ==
    IF percentage
    THEN IF ~IsNullish(data.y0)
         THEN IF ~StrictEq(stack.total, Num(0))
              THEN JsDiv(data.y0, stack.total) ELSE Num(0)
         ELSE NULL
    ELSE data.y0

\* the datum of the series at index 0 (lines 214-234)
FirstSeriesDatum(data, y1, y0, extent, filled) ==
    DataSeriesDatum(data.x, y1,
                    IF extent THEN JsOr(y0, y1) ELSE JsOr(y0, NULL),
                    y1,
                    IF IsNullish(y0) THEN NULL ELSE y0,
                    IF IsNullish(data.mark) THEN NULL ELSE data.mark,
                    data.datum, filled)

\* the value of the stack one position lower
StackYOnePositionLower(stack, seriesIndex, percentage) ==
    IF percentage THEN At(stack.percent, seriesIndex - 1)
    ELSE At(stack.values, seriesIndex - 1)

\* the value of the stack below the series (line 235)
StackY(stack, seriesIndex, percentage) ==
    IF percentage THEN At(stack.percent, seriesIndex) ELSE At(stack.values, seriesIndex)

\* stackedY1 (lines 239, 243, 246)
StackedY1(y1, stackY, percentage) ==
    IF percentage
    THEN IF y1 # NULL /\ ~IsNullish(stackY) THEN JsAdd(stackY, y1) ELSE NULL
    ELSE IF IsNullish(stackY)
         THEN IF y1 # NULL THEN y1 ELSE NULL
         ELSE IF y1 # NULL THEN JsAdd(stackY, y1) ELSE NULL

\* stackedY0 (lines 240, 244, 247, 251-253)
StackedY0(y1, y0, stackY, percentage) ==
    IF percentage
    THEN IF ~IsNullish(y0) /\ ~IsNullish(stackY) THEN JsAdd(stackY, y0) ELSE stackY
    ELSE IF StackedY1(y1, stackY, percentage) = NULL THEN NULL
         ELSE IF IsNullish(stackY)
              THEN IF ~IsNullish(y0) THEN y0 ELSE stackY
              ELSE IF ~IsNullish(y0) THEN JsAdd(stackY, y0) ELSE stackY

\* getStackedFormattedSeriesDatum(data, stackedValues, seriesIndex,
\* scaleToExtent, isPercentageMode, filled): UNDEFINED when x has no stack
GetStackedFormattedSeriesDatum(data, stacked, seriesIndex, extent, percentage, filled) ==
    IF data.x \notin DOMAIN stacked THEN UNDEFINED
    ELSE LET stack == stacked[data.x]
             y1 == OwnY1(data, stack, percentage)
             y0 == OwnY0(data, stack, percentage)
             stackY == StackY(stack, seriesIndex, percentage)
         IN  IF seriesIndex = 0
             THEN FirstSeriesDatum(data, y1, y0, extent, filled)
             ELSE DataSeriesDatum(data.x,
                                  StackedY1(y1, stackY, percentage),
                                  StackedY0(y1, y0, stackY, percentage),
                                  y1,
                                  IF IsNullish(y0) THEN NULL ELSE y0,
                                  IF IsNullish(data.mark) THEN NULL ELSE data.mark,
                                  data.datum, filled)

\* the loop over the raw points without missingXValues.delete(data.x)
RECURSIVE FormatDataKeepsMissing(_, _, _, _, _, _)
FormatDataKeepsMissing(acc, data, stacked, seriesIndex, extent, percentage) ==
    IF data = <<>> THEN acc
    ELSE LET formattedSeriesDatum ==
                 GetStackedFormattedSeriesDatum(Head(data), stacked, seriesIndex,
                                                extent, percentage, <<>>)
         IN  FormatDataKeepsMissing(
                 IF formattedSeriesDatum = UNDEFINED THEN acc
                 ELSE [newData |-> Append(acc.newData, formattedSeriesDatum),
                       missingXValues |-> acc.missingXValues],
                 Tail(data), stacked, seriesIndex, extent, percentage)

\* ds.data.forEach of formatStackedDataSeriesValues (lines 137-150)
RECURSIVE FormatData(_, _, _, _, _, _)
FormatData(acc, data, stacked, seriesIndex, extent, percentage) ==
    IF data = <<>> THEN acc
    ELSE LET formattedSeriesDatum ==
                 GetStackedFormattedSeriesDatum(Head(data), stacked, seriesIndex,
                                                extent, percentage, <<>>)
         IN  FormatData(
                 IF formattedSeriesDatum = UNDEFINED THEN acc
                 ELSE [newData |-> Append(acc.newData, formattedSeriesDatum),
                       missingXValues |-> SeqDelete(acc.missingXValues, Head(data).x)],
                 Tail(data), stacked, seriesIndex, extent, percentage)

\* the loop over missingXValues with the filled points left unmarked
RECURSIVE FillMissingUnmarked(_, _, _, _, _, _)
FillMissingUnmarked(newData, missing, stacked, seriesIndex, extent, percentage) ==
    IF missing = <<>> THEN newData
    ELSE LET x == Head(missing)
             filledSeriesDatum ==
                 GetStackedFormattedSeriesDatum(
                     RawDataSeriesDatum(x, Num(0), UNDEFINED, NULL, NULL),
                     stacked, seriesIndex, extent, percentage, <<>>)
         IN  FillMissingUnmarked(
                 IF filledSeriesDatum = UNDEFINED THEN newData
                 ELSE Append(newData, filledSeriesDatum),
                 Tail(missing), stacked, seriesIndex, extent, percentage)

\* the loop over missingXValues of formatStackedDataSeriesValues (lines 152-174)
RECURSIVE FillMissing(_, _, _, _, _, _)
FillMissing(newData, missing, stacked, seriesIndex, extent, percentage) ==
    IF missing = <<>> THEN newData
    ELSE LET x == Head(missing)
             filledSeriesDatum ==
                 GetStackedFormattedSeriesDatum(
                     RawDataSeriesDatum(x, Num(0), UNDEFINED, NULL, NULL),
                     stacked, seriesIndex, extent, percentage,
                     <<[x |-> x, y1 |-> Num(0)]>>)
         IN  FillMissing(
                 IF filledSeriesDatum = UNDEFINED THEN newData
                 ELSE Append(newData, filledSeriesDatum),
                 Tail(missing), stacked, seriesIndex, extent, percentage)

\* the DataSeries of one RawDataSeries (lines 134-180)
FormatSeries(ds, seriesIndex, stacked, xs, extent, percentage, scaleType) ==
    LET formatted == FormatData([newData |-> <<>>, missingXValues |-> xs],
                                ds.data, stacked, seriesIndex, extent, percentage)
        newData == FillMissing(formatted.newData, formatted.missingXValues,
                               stacked, seriesIndex, extent, percentage)
    IN  [ds EXCEPT !.data = ArraySort([fn |-> "datumXSortPredicate",
                                       scaleType |-> scaleType], newData)]

\* formatStackedDataSeriesValues(dataseries, scaleToExtent, isPercentageMode,
\* xValues, xScaleType)
FormatStackedDataSeriesValues(series, extent, percentage, xs, scaleType) ==
    LET stacked == ComputeYStackedMapValues(GetYValueStackMap(series, xs), extent)
    IN  [i \in DOMAIN series |->
            FormatSeries(series[i], i - 1, stacked, xs, extent, percentage, scaleType)]

---------------------------------------------------------------------------
(* series.ts: series keys.  A Map is the sequence of its entries in         *)
(* insertion order.                                                        *)

Entry(key, value) == [key |-> key, value |-> value]

\* array.join(separator) of an array of strings
RECURSIVE Join(_, _)
Join(strings, separator) ==
    CASE strings = <<>> -> <<>>
      [] Len(strings) = 1 -> Head(strings)
      [] OTHER -> Head(strings) \o separator \o Join(Tail(strings), separator)

\* `${key}-${value}` (line 472)
EntryString(entry) == JsToString(entry.key) \o <<"-">> \o JsToString(entry.value)

\* .map(([key, value]) => `${key}-${value}`).join('|') (lines 472-473)
JoinedAccessors(sorted) ==
    Join([i \in DOMAIN sorted |-> EntryString(sorted[i])], <<"|">>)

\* `spec{${specId}}yAccessor{${yAccessor}}splitAccessors{${joinedAccessors}}`
SeriesKeyString(specId, yAccessor, joinedAccessors) ==
    <<"s", "p", "e", "c", "{">> \o JsToString(specId)
    \o <<"}", "y", "A", "c", "c", "e", "s", "s", "o", "r", "{">> \o JsToString(yAccessor)
    \o <<"}", "s", "p", "l", "i", "t", "A", "c", "c", "e", "s", "s", "o", "r", "s", "{">>
    \o joinedAccessors \o <<"}">>

\* getSeriesKey({specId, yAccessor, splitAccessors})
GetSeriesKey(id) ==
    SeriesKeyString(
        id.specId, id.yAccessor,
        JoinedAccessors(ArraySort([fn |-> "splitAccessorOrder"], id.splitAccessors)))

---------------------------------------------------------------------------
(* The inputs of the stacking calls.                                       *)

MaxPoints == 2       \* raw points of a group cut freely into series, without y0
MaxSeries == 3       \* series of a group whose series hold one point each
MaxBandPoints == 2   \* raw points of a group cut freely into series, with y0

XDomain == {Num(1), Num(2)}
Y1Values == {NULL, Num(1), Num(-1)}
Y0Values == {NULL, Num(0), Num(1)}

\* points as cleanDatum leaves them without a y0 accessor (y0: null)
PlainPoints == {[x |-> x, y1 |-> y1, y0 |-> NULL] : x \in XDomain, y1 \in Y1Values}
\* points of a banded series, all at one x
BandPoints == {[x |-> Num(1), y1 |-> y1, y0 |-> y0] : y1 \in Y1Values, y0 \in Y0Values}

\* points at an x that no universe holds
OutsidePoints == {[x |-> Num(3), y1 |-> y1, y0 |-> NULL] : y1 \in {NULL, Num(1)}}

\* the Sets of x-values: the sequences without repeats over XDomain
Universes ==
    {q \in UNION {[1..n -> XDomain] : n \in 1..Cardinality(XDomain)} :
        \A i, j \in DOMAIN q : i # j => q[i] # q[j]}

RECURSIVE SumSeq(_)
SumSeq(seq) == IF seq = <<>> THEN 0 ELSE Head(seq) + SumSeq(Tail(seq))

\* the ways to cut total points into non-empty series, as the series' lengths
Compositions(total) ==
    {lens \in UNION {[1..n -> 1..total] : n \in 1..total} : SumSeq(lens) = total}

\* the series of lengths lens over the points pts; the datum of a point is the
\* record it came from, told apart by its position in the input
SeriesOf(pts, lens) ==
    [i \in DOMAIN lens |->
        LET before == SumSeq(SubSeq(lens, 1, i - 1))
        IN  [key |-> i,
             data |-> [j \in 1..lens[i] |->
                          RawDataSeriesDatum(pts[before + j].x, pts[before + j].y1,
                                             pts[before + j].y0, NULL,
                                             Obj(before + j))]]]

\* the groups of at most max points, cut into series in every way
Groups(points, max) ==
    UNION {{SeriesOf(pts, lens) : pts \in [1..total -> points],
                                  lens \in Compositions(total)} : total \in 1..max}

\* the groups of at most max series of one point each
SinglePointGroups(points, max) ==
    UNION {{SeriesOf(pts, [i \in 1..n |-> 1]) : pts \in [1..n -> points]} : n \in 1..max}

StackIdle ==
    /\ dataseries = <<>>
    /\ xValues = <<>>
    /\ scaleToExtent = FALSE
    /\ isPercentageMode = FALSE
    /\ xScaleType = Linear
    /\ stackedValues = EmptyMap
    /\ stackedDataSeries = <<>>

KeyIdle ==
    /\ idA = NULL
    /\ idB = NULL
    /\ keyA = <<>>
    /\ keyB = <<>>

ColorIdle ==
    /\ seriesCollection = <<>>
    /\ vizColors = <<>>
    /\ customColors = EmptyMap
    /\ temporary = EmptyMap
    /\ persisted = EmptyMap
    /\ seriesColorMap = EmptyMap

SplitIdle ==
    /\ seriesSpec = NULL
    /\ splitResult = NULL

NameIdle ==
    /\ seriesIdentifier = NULL
    /\ hasSingleSeries = FALSE
    /\ seriesName = NULL

PipelineIdle ==
    /\ seriesSpecs = <<>>
    /\ deselectedDataSeries = <<>>
    /\ splittedSeries = NULL
    /\ runs = <<>>

stackVars == <<dataseries, xValues, scaleToExtent, isPercentageMode, xScaleType,
               stackedValues, stackedDataSeries>>
keyVars == <<idA, idB, keyA, keyB>>
colorVars == <<seriesCollection, vizColors, customColors, temporary, persisted,
               seriesColorMap>>
splitVars == <<seriesSpec, splitResult>>
pipelineVars == <<seriesSpecs, deselectedDataSeries, splittedSeries, runs>>
nameVars == <<seriesIdentifier, hasSingleSeries, seriesName>>

InitStack ==
    /\ pc = "ready"
    /\ \/ /\ dataseries \in Groups(PlainPoints, MaxPoints)
                             \cup SinglePointGroups(PlainPoints, MaxSeries)
          /\ xValues \in Universes
       \/ /\ dataseries \in Groups(BandPoints, MaxBandPoints)
          /\ xValues \in {<<Num(1)>>, <<Num(1), Num(2)>>}
       \/ /\ dataseries \in SinglePointGroups(OutsidePoints, MaxSeries)
          /\ xValues \in Universes
    /\ scaleToExtent = FALSE
    /\ isPercentageMode = FALSE
    /\ xScaleType = Linear
    /\ stackedValues = EmptyMap
    /\ stackedDataSeries = <<>>
    /\ KeyIdle /\ ColorIdle /\ SplitIdle /\ PipelineIdle /\ NameIdle

\* a call of formatStackedDataSeriesValues on the group
CallFormatStackedDataSeriesValues ==
    /\ pc = "ready"
    /\ \E extent \in BOOLEAN, percentage \in BOOLEAN, scaleType \in {Ordinal, Linear} :
          /\ scaleToExtent' = extent
          /\ isPercentageMode' = percentage
          /\ xScaleType' = scaleType
          /\ stackedValues' =
                ComputeYStackedMapValues(GetYValueStackMap(dataseries, xValues), extent)
          /\ stackedDataSeries' =
                FormatStackedDataSeriesValues(dataseries, extent, percentage,
                                              xValues, scaleType)
    /\ pc' = "formatted"
    /\ UNCHANGED <<dataseries, xValues, keyVars, colorVars, splitVars, pipelineVars, nameVars>>

NextStack == CallFormatStackedDataSeriesValues

SpecStack == InitStack /\ [][NextStack]_vars

---------------------------------------------------------------------------
(* What the claims about stacking are stated with.  Nothing below is used  *)
(* by the model of the code.                                               *)

Formatted == pc = "formatted"

SeriesIndexes == 0..(Len(dataseries) - 1)

\* the raw points of the series at index i, and those at x
RawPoints(i) == Range(At(dataseries, i).data)
RawPointsAt(i, x) == {p \in RawPoints(i) : p.x = x}
PositionsAt(i, x) == {j \in DOMAIN At(dataseries, i).data : At(dataseries, i).data[j].x = x}

\* the entries of the output of the series at index i
OutPositions(i) == DOMAIN At(stackedDataSeries, i).data
OutEntry(i, j) == At(stackedDataSeries, i).data[j]
OutCount(i, x) == Cardinality({j \in OutPositions(i) : OutEntry(i, j).x = x})

\* the output entries made from the raw point p (they carry its datum)
OutOf(i, p) == {OutEntry(i, j) : j \in {k \in OutPositions(i) : OutEntry(i, k).datum = p.datum}}

\* the contribution of the series at index i to the stack at x: the y1 of its
\* point at x (of the last one when the raw points repeat x), 0 when it has none
Contribution(i, x) ==
    IF PositionsAt(i, x) = {} THEN Num(0)
    ELSE LET last == CHOOSE j \in PositionsAt(i, x) : \A k \in PositionsAt(i, x) : k <= j
         IN  At(dataseries, i).data[last].y1

\* the sum of the integer contributions of the series at the indexes in S
RECURSIVE SumContributions(_, _)
SumContributions(S, x) ==
    IF S = {} THEN 0
    ELSE LET i == CHOOSE j \in S : TRUE
         IN  (IF Contribution(i, x) = NULL THEN 0 ELSE Contribution(i, x).n)
             + SumContributions(S \ {i}, x)

Universe == Range(xValues)

---------------------------------------------------------------------------
(* C1: in absolute stacking (no percentage, no extent), a point of a series *)
(* at index i > 0 with a numeric y1 and no y0, over lower series that are  *)
(* absent at its x or contribute a number there, comes out with y0 = the   *)
(* sum of the lower series' contributions at x and y1 = that sum + its own  *)
(* y1.                                                                     *)
C1_AbsoluteStackIsSumBelow ==
    (Formatted /\ ~isPercentageMode /\ ~scaleToExtent) =>
        \A i \in SeriesIndexes \ {0} : \A p \in RawPoints(i) :
            (/\ IsFinite(p.y1)
             /\ IsNullish(p.y0)
             /\ \A l \in 0..(i - 1) : Contribution(l, p.x) # NULL)
            => /\ Cardinality(OutOf(i, p)) = 1
               /\ \A o \in OutOf(i, p) :
                     /\ o.y0 = Num(SumContributions(0..(i - 1), p.x))
                     /\ o.y1 = Num(SumContributions(0..(i - 1), p.x) + p.y1.n)

\* a third series stacked on two series that both have a non-zero y1 at its x
C1_Witness ==
    /\ Formatted /\ ~isPercentageMode /\ ~scaleToExtent
    /\ \E i \in SeriesIndexes : \E p \in RawPoints(i) :
          /\ i >= 2
          /\ IsFinite(p.y1) /\ IsNullish(p.y0)
          /\ \A l \in 0..(i - 1) : IsFinite(Contribution(l, p.x))
                                   /\ RawPointsAt(l, p.x) # {}
                                   /\ Contribution(l, p.x).n # 0
          /\ SumContributions(0..(i - 1), p.x) # 0
          /\ \E o \in OutOf(i, p) : o.y1 = Num(SumContributions(0..i, p.x))

(* C2: for every x of the map of StackedValues, total is the sum over all   *)
(* the series of their contributions at x (a null y1 adds nothing).        *)
C2_TotalIsSumOfContributions ==
    Formatted =>
        \A x \in DOMAIN stackedValues :
            stackedValues[x].total = Num(SumContributions(SeriesIndexes, x))

(* C3 as claimed: the output of every series holds exactly one entry for    *)
(* every x of the universe.                                                *)
C3_ExactlyOneEntryPerX ==
    Formatted => \A i \in SeriesIndexes : \A x \in Universe : OutCount(i, x) = 1

(* C3 as amended: the output of a series holds one entry for every raw      *)
(* point of the series, and one more entry for every x of the universe the *)
(* series has no raw point at; so an x of the universe has exactly one     *)
(* entry unless the raw points repeat it.                                  *)
C3_EntriesPerX ==
    Formatted =>
        \A i \in SeriesIndexes : \A x \in XDomain :
            OutCount(i, x) =
                IF PositionsAt(i, x) # {} THEN Cardinality(PositionsAt(i, x))
                ELSE IF x \in Universe THEN 1 ELSE 0

\* a series that repeats an x and lacks another x of the universe
C3_Witness ==
    /\ Formatted
    /\ \E i \in SeriesIndexes : \E x, y \in Universe :
          /\ Cardinality(PositionsAt(i, x)) = 2 /\ OutCount(i, x) = 2
          /\ PositionsAt(i, y) = {} /\ OutCount(i, y) = 1

(* C4: in every mode and at every series index, a point whose own y1 is     *)
(* null comes out with y0 = null.                                          *)
C4_NullY1GivesNullY0 ==
    Formatted =>
        \A i \in SeriesIndexes : \A p \in RawPoints(i) :
            p.y1 = NULL => \A o \in OutOf(i, p) : o.y0 = NULL

RECURSIVE SumNumbers(_)
SumNumbers(seq) == IF seq = <<>> THEN Num(0) ELSE JsAdd(Head(seq), SumNumbers(Tail(seq)))

(* C7 as claimed: where total is a number other than 0, the entries of      *)
(* percent sum to 1.                                                       *)
C7_PercentSumsToOne ==
    Formatted =>
        \A x \in DOMAIN stackedValues :
            (IsFinite(stackedValues[x].total) /\ stackedValues[x].total # Num(0))
                => SumNumbers(stackedValues[x].percent) = Num(1)

(* C7 as amended: where total is a number other than 0, the entries of      *)
(* percent are the cumulative values over total, so the last entry, the    *)
(* whole stack, is 1.                                                      *)
C7_LastPercentIsOne ==
    Formatted =>
        \A x \in DOMAIN stackedValues :
            LET stack == stackedValues[x]
            IN  (IsFinite(stack.total) /\ stack.total # Num(0)) =>
                    /\ stack.percent[Len(stack.percent)] = Num(1)
                    /\ \A j \in DOMAIN stack.percent :
                          /\ IsFinite(stack.percent[j])
                          /\ stack.percent[j].n * stack.total.n * ToNumber(stack.values[j]).d
                               = ToNumber(stack.values[j]).n * stack.percent[j].d * stack.total.d

\* two stacked series with a non-zero total, whose percents sum to more than 1
C7_Witness ==
    /\ Formatted
    /\ \E x \in DOMAIN stackedValues :
          /\ Len(stackedValues[x].percent) >= 3
          /\ IsFinite(stackedValues[x].total) /\ stackedValues[x].total.n > 0
          /\ stackedValues[x].percent[2] \notin {Num(0), Num(1)}
          /\ stackedValues[x].percent[Len(stackedValues[x].percent)] = Num(1)

(* C8: where total is 0, every entry of percent is 0 and, in percentage     *)
(* mode, a point with a non-null raw y1 (y0) has initialY1 (initialY0) 0.  *)
C8_ZeroTotalGivesZero ==
    Formatted =>
        \A x \in DOMAIN stackedValues :
            stackedValues[x].total = Num(0) =>
                /\ \A j \in DOMAIN stackedValues[x].percent :
                      stackedValues[x].percent[j] = Num(0)
                /\ isPercentageMode =>
                      \A i \in SeriesIndexes : \A p \in RawPointsAt(i, x) :
                          /\ Cardinality(OutOf(i, p)) = 1
                          /\ \A o \in OutOf(i, p) :
                                /\ ~IsNullish(p.y1) => o.initialY1 = Num(0)
                                /\ ~IsNullish(p.y0) => o.initialY0 = Num(0)

\* a zero total made of non-zero values, under a point with y1 and y0
C8_Witness ==
    /\ Formatted /\ isPercentageMode
    /\ \E x \in DOMAIN stackedValues :
          /\ stackedValues[x].total = Num(0)
          /\ \E j \in DOMAIN stackedValues[x].values :
                ToNumber(stackedValues[x].values[j]).n # 0
          /\ \E i \in SeriesIndexes : \E p \in RawPointsAt(i, x) :
                /\ IsFinite(p.y1) /\ p.y1.n # 0
                /\ IsFinite(p.y0) /\ p.y0.n # 0
                /\ \E o \in OutOf(i, p) : o.initialY1 = Num(0) /\ o.initialY0 = Num(0)

\* the stack at the x of an output entry, and what lies below the series at
\* index i there: the element of values, or of percent, at position i
StackAt(x) == stackedValues[x]
StackBelow(i, x) ==
    IF isPercentageMode THEN At(StackAt(x).percent, i) ELSE At(StackAt(x).values, i)
StackBelowBefore(i, x) ==
    IF isPercentageMode THEN At(StackAt(x).percent, i - 1)
    ELSE At(StackAt(x).values, i - 1)

(* C14 as claimed: for a series at index i > 0, the output of a point is    *)
(* its own y1 and y0 (initialY1, initialY0) added to the element at        *)
(* position i - 1 of values (of percent in percentage mode), position 0    *)
(* being the sentinel; y0 is that element alone when the point has no y0.  *)
C14_StackBelowAtIndexMinusOne ==
    Formatted =>
        \A i \in SeriesIndexes \ {0} : \A p \in RawPoints(i) : \A o \in OutOf(i, p) :
            ~IsNullish(p.y1) =>
                /\ o.y1 = JsAdd(StackBelowBefore(i, p.x), o.initialY1)
                /\ o.y0 = IF IsNullish(p.y0) THEN StackBelowBefore(i, p.x)
                          ELSE JsAdd(StackBelowBefore(i, p.x), o.initialY0)

(* C14 as amended: for a series at index i > 0 and a point with a y1 that   *)
(* is not null, the stack below is the element at position i of values (of *)
(* percent in percentage mode), position 0 being the sentinel, which is    *)
(* the cumulative value of the series 0..i-1: y1 = that element + own y1,  *)
(* y0 = that element + own y0, or that element alone when y0 is absent.    *)
C14_StackBelowAtIndex ==
    Formatted =>
        \A i \in SeriesIndexes \ {0} : \A p \in RawPoints(i) : \A o \in OutOf(i, p) :
            ~IsNullish(p.y1) =>
                /\ o.y1 = JsAdd(StackBelow(i, p.x), o.initialY1)
                /\ o.y0 = IF IsNullish(p.y0) THEN StackBelow(i, p.x)
                          ELSE JsAdd(StackBelow(i, p.x), o.initialY0)

\* a third series over two series with values: the element at position 2 is
\* not the element at position 1, and the point comes out on the former
C14_Witness ==
    /\ Formatted /\ ~isPercentageMode /\ ~scaleToExtent
    /\ Len(dataseries) = 3
    /\ \E p \in RawPoints(2) : \E o \in OutOf(2, p) :
          /\ IsFinite(p.y1)
          /\ IsFinite(StackBelow(2, p.x)) /\ IsFinite(StackBelowBefore(2, p.x))
          /\ StackBelow(2, p.x) # StackBelowBefore(2, p.x)
          /\ StackBelowBefore(2, p.x) # Num(0)
          /\ o.y1 = JsAdd(StackBelow(2, p.x), p.y1)
          /\ o.y0 = StackBelow(2, p.x)

(* C15: without scaleToExtent, every point of the series at index 0 comes   *)
(* out with its own y1 and its own y0 (in percentage mode the values       *)
(* divided by the total, which initialY1 and initialY0 hold), whatever y0  *)
(* is, 0 included: a y0 that is a number does not come out null.           *)
C15_FirstSeriesUnchanged ==
    (Formatted /\ ~scaleToExtent) =>
        \A p \in RawPoints(0) : \A o \in OutOf(0, p) :
            /\ o.y1 = (IF isPercentageMode THEN o.initialY1 ELSE p.y1)
            /\ o.y0 = (IF isPercentageMode THEN o.initialY0 ELSE p.y0)
            /\ IsFinite(p.y0) => o.y0 # NULL

\* the x of the entries of the output of the series at index i, in order
OutXs(i) == [j \in OutPositions(i) |-> OutEntry(i, j).x]

\* the x of the universe the series at index i has no raw point at, in the
\* iteration order of the universe
MissingXs(i) == SelectSeq(xValues, LAMBDA x : PositionsAt(i, x) = {})

(* C16: with a scale that is not ordinal and x that are numbers, the data   *)
(* of every output series is in non-decreasing order of x, the filled      *)
(* points included; with an ordinal scale it is the raw points of the      *)
(* series in their input order, then the filled points in the iteration    *)
(* order of the universe.                                                  *)
C16_OutputOrder ==
    Formatted =>
        \A i \in SeriesIndexes :
            IF xScaleType = Ordinal
            THEN /\ Len(At(stackedDataSeries, i).data)
                      = Len(At(dataseries, i).data) + Len(MissingXs(i))
                 /\ \A j \in DOMAIN At(dataseries, i).data :
                       /\ OutEntry(i, j).datum = At(dataseries, i).data[j].datum
                       /\ OutEntry(i, j).x = At(dataseries, i).data[j].x
                 /\ \A j \in DOMAIN MissingXs(i) :
                       /\ OutEntry(i, Len(At(dataseries, i).data) + j).x = MissingXs(i)[j]
                       /\ OutEntry(i, Len(At(dataseries, i).data) + j).filled # <<>>
            ELSE \A j, k \in OutPositions(i) :
                    j < k => ~NumberLess(OutEntry(i, k).x, OutEntry(i, j).x)

\* a linear scale: a raw point at x = 3 and the universe 2, 1 come out as the
\* filled points at 1 and 2 and then the raw point
C16_Witness ==
    /\ Formatted /\ xScaleType = Linear
    /\ xValues = <<Num(2), Num(1)>>
    /\ \E i \in SeriesIndexes :
          /\ OutXs(i) = <<Num(1), Num(2), Num(3)>>
          /\ OutEntry(i, 1).filled # <<>> /\ OutEntry(i, 2).filled # <<>>
          /\ OutEntry(i, 3).filled = <<>>

\* the filled points of the output of the series at index i
IsFilled(o) == o.filled # <<>>

(* C17: an entry of the output of a series carries a filled marker if and   *)
(* only if its x is in the universe and the series has no raw point at     *)
(* that x, and every such x has such an entry; the marker is {x, y1: 0},   *)
(* the entry has initialY1 = 0 and no datum; an entry that comes from a    *)
(* raw point carries no marker.                                            *)
C17_FilledMarker ==
    Formatted =>
        \A i \in SeriesIndexes :
            /\ \A j \in OutPositions(i) :
                  /\ IsFilled(OutEntry(i, j)) <=>
                        (OutEntry(i, j).x \in Universe /\ PositionsAt(i, OutEntry(i, j).x) = {})
                  /\ IsFilled(OutEntry(i, j)) =>
                        /\ OutEntry(i, j).filled = <<[x |-> OutEntry(i, j).x, y1 |-> Num(0)]>>
                        /\ OutEntry(i, j).initialY1 = Num(0)
                        /\ OutEntry(i, j).datum = NULL
            /\ \A x \in Universe :
                  PositionsAt(i, x) = {} =>
                     \E j \in OutPositions(i) : OutEntry(i, j).x = x /\ IsFilled(OutEntry(i, j))
            /\ \A p \in RawPoints(i) :
                  /\ OutOf(i, p) # {}
                  /\ \A o \in OutOf(i, p) : ~IsFilled(o)

\* percentage mode: the second of two series has a raw point with a value
\* outside the universe, which carries no marker, and a filled point at every
\* x of the universe
C17_Witness ==
    /\ Formatted /\ isPercentageMode
    /\ Len(dataseries) = 2 /\ Len(xValues) = 2
    /\ \E k \in OutPositions(1) :
          /\ ~IsFilled(OutEntry(1, k))
          /\ OutEntry(1, k).x \notin Universe
          /\ OutEntry(1, k).initialY1 = Num(1)
    /\ \A x \in Universe : \E j \in OutPositions(1) :
          /\ OutEntry(1, j).x = x
          /\ OutEntry(1, j).filled = <<[x |-> x, y1 |-> Num(0)]>>
          /\ OutEntry(1, j).initialY1 = Num(0)

\* the entries of the output of the series at index i that were filled in at x
FilledAt(i, x) ==
    {OutEntry(i, j) : j \in {k \in OutPositions(i) :
                                OutEntry(i, k).x = x /\ IsFilled(OutEntry(i, k))}}

\* the x of the universe the series at index i is absent at
AbsentAt(i) == {x \in Universe : PositionsAt(i, x) = {}}

(* C18 as claimed: a series absent at an x of the universe has there one    *)
(* filled point with y1 = 0, the number, at every index and in every mode. *)
C18_FilledY1IsZero ==
    Formatted =>
        \A i \in SeriesIndexes : \A x \in AbsentAt(i) :
            /\ Cardinality(FilledAt(i, x)) = 1
            /\ \A o \in FilledAt(i, x) : o.y1 = Num(0)

(* C18 as amended: a series absent at an x of the universe has there one    *)
(* filled point whose own value is the number 0 (initialY1 = 0 and the     *)
(* marker's y1 = 0, never null); its stacked y1 is a number too: 0 at      *)
(* index 0, and at an index i > 0 the value of the stack below it, the     *)
(* element at position i of values (of percent in percentage mode), read   *)
(* as a number, which is 0 only when the series below add up to 0 there.   *)
C18_FilledOwnValueIsZero ==
    Formatted =>
        \A i \in SeriesIndexes : \A x \in AbsentAt(i) :
            /\ Cardinality(FilledAt(i, x)) = 1
            /\ \A o \in FilledAt(i, x) :
                  /\ o.initialY1 = Num(0)
                  /\ o.filled[1].y1 = Num(0)
                  /\ IsNumberType(o.y1)
                  /\ o.y1 = IF i = 0 THEN Num(0) ELSE ToNumber(StackBelow(i, x))

\* a second series absent at an x where the first one has a value: its filled
\* point comes out at that value, not at 0
C18_Witness ==
    /\ Formatted /\ ~isPercentageMode /\ ~scaleToExtent
    /\ Len(dataseries) = 2
    /\ \E x \in AbsentAt(1) : \E o \in FilledAt(1, x) :
          /\ IsFinite(Contribution(0, x)) /\ Contribution(0, x) # Num(0)
          /\ o.y1 = Contribution(0, x)
          /\ o.initialY1 = Num(0)

---------------------------------------------------------------------------
(* The inputs of getSeriesKey: two identifiers {specId, yAccessor,          *)
(* splitAccessors}.                                                        *)

MaxSplit == 2        \* entries of a Map of split accessors

\* accessors are string | number, and so are the values they resolve to
KeyAccessors == {Str(<<"g">>), Str(<<"h">>), Num(1)}
KeyValues == {Num(1), Str(<<"1">>), Str(<<"1", "|", "h", "-", "1">>)}
KeySpecs == {[specId |-> Str(<<"a">>), yAccessor |-> Str(<<"y">>)],
             [specId |-> Str(<<"b">>), yAccessor |-> Str(<<"y">>)],
             [specId |-> Str(<<"a">>), yAccessor |-> Num(1)]}

\* the Maps of at most MaxSplit entries: no key twice, in every insertion order
SplitAccessorMaps ==
    {m \in UNION {[1..n -> {Entry(k, v) : k \in KeyAccessors, v \in KeyValues}] :
                    n \in 0..MaxSplit} :
        \A i, j \in DOMAIN m : i # j => m[i].key # m[j].key}

SeriesIdentifiers ==
    {[specId |-> h.specId, yAccessor |-> h.yAccessor, splitAccessors |-> m] :
        h \in KeySpecs, m \in SplitAccessorMaps}

InitKey ==
    /\ pc = "ready"
    /\ idA \in SeriesIdentifiers
    /\ idB \in SeriesIdentifiers
    /\ keyA = <<>>
    /\ keyB = <<>>
    /\ StackIdle /\ ColorIdle /\ SplitIdle /\ PipelineIdle /\ NameIdle

\* the keys of the two identifiers are derived
CallGetSeriesKey ==
    /\ pc = "ready"
    /\ keyA' = GetSeriesKey(idA)
    /\ keyB' = GetSeriesKey(idB)
    /\ pc' = "keyed"
    /\ UNCHANGED <<idA, idB, stackVars, colorVars, splitVars, pipelineVars, nameVars>>

NextKey == CallGetSeriesKey

SpecKey == InitKey /\ [][NextKey]_vars

---------------------------------------------------------------------------
(* What the claims about keys are stated with.                             *)

Keyed == pc = "keyed"

EntriesOf(id) == {id.splitAccessors[i] : i \in DOMAIN id.splitAccessors}

SameSpecAndY == idA.specId = idB.specId /\ idA.yAccessor = idB.yAccessor

(* C5: for one specId and one yAccessor, two Maps of split accessors that   *)
(* hold the same (accessor, value) entries, inserted in whatever order,     *)
(* get the same key.                                                       *)
C5_KeyIgnoresInsertionOrder ==
    (Keyed /\ SameSpecAndY /\ EntriesOf(idA) = EntriesOf(idB)) => keyA = keyB

(* C6: two identifiers get equal keys if and only if they have the same     *)
(* specId, the same yAccessor and the same set of (accessor, value)         *)
(* entries.                                                                *)
C6_KeysEqualIffSameIdentifier ==
    Keyed => (keyA = keyB <=> (SameSpecAndY /\ EntriesOf(idA) = EntriesOf(idB)))

---------------------------------------------------------------------------
(* series.ts: series colours.  seriesCollection is the sequence of the      *)
(* keys of the Map in iteration order; customColors and the two records of *)
(* overrides are functions of the keys they hold.                          *)

\* map.get(key), record[key]: undefined where the key is not held
MapGet(map, key) == IF key \in DOMAIN map THEN map[key] ELSE UNDEFINED

\* getHighestOverride with customColors asked first
GetHighestOverrideCustomFirst(key, customColorsMap, overrides) ==
    LET color == MapGet(customColorsMap, key)
    IN  IF Truthy(color) THEN color
        ELSE LET color2 == MapGet(overrides.temporary, key)
             IN  IF Truthy(color2) THEN color2
                 ELSE MapGet(overrides.persisted, key)

\* getHighestOverride(key, customColors, overrides)
GetHighestOverride(key, customColorsMap, overrides) ==
    LET color == MapGet(overrides.temporary, key)
    IN  IF Truthy(color) THEN color
        ELSE LET color2 == MapGet(customColorsMap, key)
             IN  IF Truthy(color2) THEN color2
                 ELSE MapGet(overrides.persisted, key)

\* chartColors.vizColors[counter % chartColors.vizColors.length]: counter % 0
\* is NaN, and no element is found at it
PaletteColor(chartColors, counter) ==
    IF Len(chartColors.vizColors) = 0 THEN UNDEFINED
    ELSE At(chartColors.vizColors, counter % Len(chartColors.vizColors))

\* the callback of seriesCollection.forEach over the keys left, with counter
\* and seriesColorMap as they stand
RECURSIVE ForEachSeriesColor(_, _, _, _, _, _)
ForEachSeriesColor(keys, counter, colorMap, chartColors, customColorsMap, overrides) ==
    IF keys = <<>> THEN colorMap
    ELSE LET seriesKey == Head(keys)
             colorOverride == GetHighestOverride(seriesKey, customColorsMap, overrides)
             color == JsOr(colorOverride, PaletteColor(chartColors, counter))
         IN  ForEachSeriesColor(Tail(keys), counter + 1,
                                MapSet(colorMap, seriesKey, color),
                                chartColors, customColorsMap, overrides)

\* getSeriesColors(seriesCollection, chartColors, customColors, overrides)
GetSeriesColors(collection, chartColors, customColorsMap, overrides) ==
    ForEachSeriesColor(collection, 0, EmptyMap, chartColors, customColorsMap, overrides)

---------------------------------------------------------------------------
(* The inputs of getSeriesColors.                                          *)

MaxCollection == 2   \* series of the collection
MaxPalette == 2      \* colours of vizColors

SeriesKeyNames == <<"spec{a}", "spec{b}", "spec{c}", "spec{d}">>
SeriesKeys == {SeriesKeyNames[i] : i \in 1..MaxCollection}

\* a colour is a string; an entry that is not there reads undefined
TemporaryColors == {UNDEFINED, Str(<<>>), Str(<<"r", "e", "d">>)}
CustomColors == {UNDEFINED, Str(<<>>), Str(<<"t", "a", "n">>)}
PersistedColors == {UNDEFINED, Str(<<>>), Str(<<"s", "k", "y">>)}
Palette == <<Str(<<"p", "0">>), Str(<<"p", "1">>), Str(<<"p", "2">>)>>

\* the collections: no key twice, in every order
SeriesCollections ==
    {q \in UNION {[1..n -> SeriesKeys] : n \in 0..MaxCollection} :
        \A i, j \in DOMAIN q : i # j => q[i] # q[j]}

KeysOf(collection) == {collection[i] : i \in DOMAIN collection}

InitColor ==
    /\ pc = "ready"
    /\ seriesCollection \in SeriesCollections
    /\ vizColors \in {SubSeq(Palette, 1, n) : n \in 0..MaxPalette}
    /\ temporary \in [KeysOf(seriesCollection) -> TemporaryColors]
    /\ customColors \in [KeysOf(seriesCollection) -> CustomColors]
    /\ persisted \in [KeysOf(seriesCollection) -> PersistedColors]
    /\ seriesColorMap = EmptyMap
    /\ StackIdle /\ KeyIdle /\ SplitIdle /\ PipelineIdle /\ NameIdle

\* a call of getSeriesColors
CallGetSeriesColors ==
    /\ pc = "ready"
    /\ seriesColorMap' =
          GetSeriesColors(seriesCollection, [vizColors |-> vizColors], customColors,
                          [temporary |-> temporary, persisted |-> persisted])
    /\ pc' = "colored"
    /\ UNCHANGED <<seriesCollection, vizColors, customColors, temporary, persisted,
                   stackVars, keyVars, splitVars, pipelineVars, nameVars>>

NextColor == CallGetSeriesColors

SpecColor == InitColor /\ [][NextColor]_vars

---------------------------------------------------------------------------
(* What the claim about colours is stated with.                            *)

Colored == pc = "colored"

\* a colour is set: it is there and it is not the empty string
IsSet(color) == IsStringType(color) /\ color.s # <<>>

\* what the claim gives the k-th series (k counted from 0)
ClaimedColor(k) ==
    LET key == seriesCollection[k + 1]
    IN  CASE IsSet(temporary[key]) -> temporary[key]
          [] IsSet(customColors[key]) -> customColors[key]
          [] IsSet(persisted[key]) -> persisted[key]
          [] OTHER -> vizColors[(k % Len(vizColors)) + 1]

(* C9: with a palette that is not empty, the k-th series of the collection *)
(* (k from 0) gets its temporary override when one is set, otherwise its    *)
(* custom colour, otherwise its persisted override, otherwise               *)
(* vizColors[k mod |vizColors|], k counting every series before it,        *)
(* overridden or not; every series of the collection gets a colour and no  *)
(* other key does.                                                         *)
C9_ColourPrecedence ==
    (Colored /\ Len(vizColors) > 0) =>
        /\ DOMAIN seriesColorMap = KeysOf(seriesCollection)
        /\ \A k \in 0..(Len(seriesCollection) - 1) :
              seriesColorMap[seriesCollection[k + 1]] = ClaimedColor(k)

\* an overridden series (all three colours set) comes before a series without
\* any colour of its own, which gets the second colour of the palette
C9_Witness ==
    /\ Colored
    /\ Len(seriesCollection) = 2
    /\ Len(vizColors) = 2
    /\ LET first == seriesCollection[1]
           second == seriesCollection[2]
       IN  /\ IsSet(temporary[first]) /\ IsSet(customColors[first])
           /\ IsSet(persisted[first])
           /\ seriesColorMap[first] = temporary[first]
           /\ ~IsSet(temporary[second]) /\ ~IsSet(customColors[second])
           /\ ~IsSet(persisted[second])
           /\ seriesColorMap[second] = vizColors[2]

---------------------------------------------------------------------------
(* series.ts: splitting the data of a spec into series.  An input record   *)
(* is [v, props]: v is the value itself, Obj(position) when it is an       *)
(* object, and props are the properties of an object.  A Map and a Set are *)
(* the sequences of their entries and elements in insertion order.         *)

\* typeof v === 'string' || typeof v === 'number'
IsStringOrNumber(v) == IsStringType(v) \/ IsNumberType(v)

\* typeof datum === 'object' && datum !== null
IsObject(datum) == datum.v.k = "object"

\* datum[accessor] of an object
PropertyOf(datum, accessor) == MapGet(datum.props, JsToString(accessor))

\* getAccessorValue(datum, accessor) of utils/accessor, with a field accessor
GetAccessorValue(datum, accessor) == PropertyOf(datum, accessor)

\* set.add(value)
SetAdd(set, value) ==
    IF \E i \in DOMAIN set : set[i] = value THEN set ELSE Append(set, value)

\* map.set(key, value) of a Map of entries
MapSetEntry(map, key, value) ==
    IF \E i \in DOMAIN map : map[i].key = key
    THEN [i \in DOMAIN map |-> IF map[i].key = key THEN Entry(key, value) ELSE map[i]]
    ELSE Append(map, Entry(key, value))

\* [...map.values()]
MapValues(map) == [i \in DOMAIN map |-> map[i].value]

\* getSplitAccessors that takes whatever value the record holds
RECURSIVE GetSplitAccessorsAnyValue(_, _)
GetSplitAccessorsAnyValue(datum, accessors) ==
    IF ~IsObject(datum) \/ accessors = <<>> THEN <<>>
    ELSE LET front == SubSeq(accessors, 1, Len(accessors) - 1)
             accessor == accessors[Len(accessors)]
         IN  MapSetEntry(GetSplitAccessorsAnyValue(datum, front), accessor,
                         PropertyOf(datum, accessor))

\* getSplitAccessors(datum, accessors)
RECURSIVE GetSplitAccessors(_, _)
GetSplitAccessors(datum, accessors) ==
    IF ~IsObject(datum) \/ accessors = <<>> THEN <<>>
    ELSE LET front == SubSeq(accessors, 1, Len(accessors) - 1)
             accessor == accessors[Len(accessors)]
             value == PropertyOf(datum, accessor)
             splitAccessors == GetSplitAccessors(datum, front)
         IN  IF IsStringOrNumber(value)
             THEN MapSetEntry(splitAccessors, accessor, value)
             ELSE splitAccessors

\* castToNumber(value)
CastToNumber(value) ==
    IF IsNullish(value) THEN NULL
    ELSE LET num == ToNumber(value)
         IN  IF IsNaN(num) THEN NULL ELSE num

\* cleanDatum(datum, xAccessor, yAccessor, y0Accessor, markSizeAccessor)
CleanDatum(datum, xAccessor, yAccessor, y0Accessor, markSizeAccessor) ==
    IF ~IsObject(datum) THEN NULL
    ELSE LET x == GetAccessorValue(datum, xAccessor)
         IN  IF ~IsStringOrNumber(x) THEN NULL
             ELSE LET mark == IF markSizeAccessor = UNDEFINED THEN NULL
                              ELSE GetAccessorValue(datum, markSizeAccessor)
                      y1 == CastToNumber(PropertyOf(datum, yAccessor))
                      y0 == IF Truthy(y0Accessor)
                            THEN CastToNumber(PropertyOf(datum, y0Accessor))
                            ELSE NULL
                  IN  RawDataSeriesDatum(x, y1, y0, mark, datum.v)

\* updateSeriesMap that puts the datum in front of the data of its series
UpdatedSeriesMapInFront(seriesMap, seriesKey, splitAccessors, accessor, datum, specId) ==
    [seriesKey |-> seriesKey,
     seriesMap |->
        IF \E i \in DOMAIN seriesMap : seriesMap[i].key = seriesKey
        THEN [i \in DOMAIN seriesMap |->
                IF seriesMap[i].key = seriesKey
                THEN [seriesMap[i] EXCEPT !.data = <<datum>> \o @]
                ELSE seriesMap[i]]
        ELSE Append(seriesMap,
                    [specId |-> specId, yAccessor |-> accessor,
                     splitAccessors |-> splitAccessors, data |-> <<datum>>,
                     key |-> seriesKey,
                     seriesKeys |-> Append(MapValues(splitAccessors), accessor)])]

\* lines 494-507 of updateSeriesMap, with the key it has derived: the Map of
\* series as it is left, and the key it returns
UpdatedSeriesMap(seriesMap, seriesKey, splitAccessors, accessor, datum, specId) ==
    [seriesKey |-> seriesKey,
     seriesMap |->
        IF \E i \in DOMAIN seriesMap : seriesMap[i].key = seriesKey
        THEN [i \in DOMAIN seriesMap |->
                IF seriesMap[i].key = seriesKey
                THEN [seriesMap[i] EXCEPT !.data = Append(@, datum)]
                ELSE seriesMap[i]]
        ELSE Append(seriesMap,
                    [specId |-> specId, yAccessor |-> accessor,
                     splitAccessors |-> splitAccessors, data |-> <<datum>>,
                     key |-> seriesKey,
                     seriesKeys |-> Append(MapValues(splitAccessors), accessor)])]

\* updateSeriesMap(seriesMap, splitAccessors, accessor, datum, specId)
UpdateSeriesMap(seriesMap, splitAccessors, accessor, datum, specId) ==
    UpdatedSeriesMap(seriesMap,
                     GetSeriesKey([specId |-> specId, yAccessor |-> accessor,
                                   splitAccessors |-> splitAccessors]),
                     splitAccessors, accessor, datum, specId)

\* y0Accessors && y0Accessors[index]
Y0AccessorAt(y0Accessors, index) ==
    IF y0Accessors.k = "undefined" THEN UNDEFINED ELSE At(y0Accessors.items, index)

\* xValues.add(cleanedDatum.x), the series as updateSeriesMap left them and
\* colorsValues.add(seriesKey) (lines 439-441, 447-449)
Collected(acc, x, updated) ==
    [series |-> updated.seriesMap,
     colorsValues |-> SetAdd(acc.colorsValues, updated.seriesKey),
     xValues |-> SetAdd(acc.xValues, x)]

\* what splitSeries does with a cleaned datum (lines 438-442 and 446-450)
CollectCleanedDatum(acc, cleanedDatum, splitAccessors, accessor, specId) ==
    IF cleanedDatum = NULL THEN acc
    ELSE IF IsNullish(cleanedDatum.x) THEN acc
    ELSE Collected(acc, cleanedDatum.x,
                   UpdateSeriesMap(acc.series, splitAccessors, accessor,
                                   cleanedDatum, specId))

\* what splitSeries does with one datum and one y accessor (lines 430-442 and
\* 445-450) on the series, colorsValues and xValues as they stand
SplitSeriesAccessor(acc, datum, splitAccessors, accessor, index, seriesSpecification) ==
    CollectCleanedDatum(
        acc,
        CleanDatum(datum, seriesSpecification.xAccessor, accessor,
                   Y0AccessorAt(seriesSpecification.y0Accessors, index),
                   seriesSpecification.markSizeAccessor),
        splitAccessors, accessor, seriesSpecification.id)

\* the y accessors a datum is cleaned with: all of them when they are more
\* than one (line 429), the first otherwise (line 445)
AccessorsUsed(yAccessors) ==
    IF Len(yAccessors) > 1 THEN yAccessors ELSE <<At(yAccessors, 0)>>

\* the datum cleaned with each of the accessors from index on
RECURSIVE SplitSeriesAccessors(_, _, _, _, _, _)
SplitSeriesAccessors(acc, datum, splitAccessors, accessors, index, seriesSpecification) ==
    IF index >= Len(accessors) THEN acc
    ELSE SplitSeriesAccessors(
            SplitSeriesAccessor(acc, datum, splitAccessors, At(accessors, index), index,
                                seriesSpecification),
            datum, splitAccessors, accessors, index + 1, seriesSpecification)

\* lines 424-451 of the callback, with the split accessors of the datum
SplitSeriesWith(acc, datum, splitAccessors, seriesSpecification) ==
    IF Len(seriesSpecification.splitSeriesAccessors) > 0 /\ Len(splitAccessors) < 1
    THEN acc
    ELSE SplitSeriesAccessors(acc, datum, splitAccessors,
                              AccessorsUsed(seriesSpecification.yAccessors), 0,
                              seriesSpecification)

\* the callback of data.forEach (lines 421-452)
SplitSeriesDatum(acc, datum, seriesSpecification) ==
    SplitSeriesWith(acc, datum,
                    GetSplitAccessors(datum, seriesSpecification.splitSeriesAccessors),
                    seriesSpecification)

\* data.forEach from the datum at index on
RECURSIVE SplitSeriesData(_, _, _)
SplitSeriesData(acc, index, seriesSpecification) ==
    IF index >= Len(seriesSpecification.data) THEN acc
    ELSE SplitSeriesData(
            SplitSeriesDatum(acc, At(seriesSpecification.data, index), seriesSpecification),
            index + 1, seriesSpecification)

\* the value splitSeries returns (lines 454-458)
SplitSeriesResult(acc) ==
    [rawDataSeries |-> acc.series,
     colorsValues |-> acc.colorsValues,
     xValues |-> acc.xValues]

\* splitSeries(spec)
SplitSeries(seriesSpecification) ==
    SplitSeriesResult(
        SplitSeriesData([series |-> <<>>, colorsValues |-> <<>>, xValues |-> <<>>],
                        0, seriesSpecification))

\* [...xValues].sort() into a new Set (line 715)
SortedXValues(xs) == ArraySort([fn |-> "default"], xs)

\* rawDataSeries.filter(({ key }) => !deselectedDataSeries.some(...)) (line 689)
WithoutDeselected(rawDataSeries, deselected) ==
    SelectSeq(rawDataSeries,
              LAMBDA series : ~\E i \in DOMAIN deselected : series.key = deselected[i].key)

\* spec.y0Accessors && spec.y0Accessors.length > 0 (line 694)
Banded(y0Accessors) ==
    IF y0Accessors.k = "undefined" THEN UNDEFINED
    ELSE IF Len(y0Accessors.items) > 0 THEN JsTrue ELSE JsFalse

\* const { data, ...seriesIdentifier } = series (line 697)
SeriesIdentifierOf(series) ==
    [specId |-> series.specId, yAccessor |-> series.yAccessor,
     splitAccessors |-> series.splitAccessors, key |-> series.key,
     seriesKeys |-> series.seriesKeys]

\* dataSeries.rawDataSeries.forEach of getSplittedSeries (lines 696-703), from
\* the series at index on
RECURSIVE CollectSeries(_, _, _, _)
CollectSeries(collection, rawDataSeries, index, seriesSpecification) ==
    IF index >= Len(rawDataSeries) THEN collection
    ELSE CollectSeries(
            MapSetEntry(collection, At(rawDataSeries, index).key,
                        [banded |-> Banded(seriesSpecification.y0Accessors),
                         specSortIndex |-> seriesSpecification.sortIndex,
                         seriesIdentifier |-> SeriesIdentifierOf(At(rawDataSeries, index))]),
            rawDataSeries, index + 1, seriesSpecification)

\* for (const xValue of dataSeries.xValues) xValues.add(xValue) (lines 706-708)
RECURSIVE AddAll(_, _)
AddAll(set, values) ==
    IF values = <<>> THEN set ELSE AddAll(SetAdd(set, Head(values)), Tail(values))

\* the body of the loop over the specs with the collection taken from the
\* series that are left after the filter
SplittedSpecOfSeriesLeft(acc, seriesSpecification, dataSeries, deselected) ==
    [splittedSeries |->
        MapSetEntry(acc.splittedSeries, seriesSpecification.id,
                    WithoutDeselected(dataSeries.rawDataSeries, deselected)),
     seriesCollection |->
        CollectSeries(acc.seriesCollection,
                      WithoutDeselected(dataSeries.rawDataSeries, deselected), 0,
                      seriesSpecification),
     xValues |-> AddAll(acc.xValues, dataSeries.xValues),
     isOrdinalScale |-> acc.isOrdinalScale \/ seriesSpecification.xScaleType = Ordinal]

\* the body of the loop over the specs (lines 682-708), with what splitSeries
\* returned for the spec
SplittedSpec(acc, seriesSpecification, dataSeries, deselected) ==
    [splittedSeries |->
        MapSetEntry(acc.splittedSeries, seriesSpecification.id,
                    IF Len(deselected) > 0
                    THEN WithoutDeselected(dataSeries.rawDataSeries, deselected)
                    ELSE dataSeries.rawDataSeries),
     seriesCollection |->
        CollectSeries(acc.seriesCollection, dataSeries.rawDataSeries, 0,
                      seriesSpecification),
     xValues |-> AddAll(acc.xValues, dataSeries.xValues),
     isOrdinalScale |-> acc.isOrdinalScale \/ seriesSpecification.xScaleType = Ordinal]

\* for (const spec of seriesSpecs) from the spec at index on
RECURSIVE SplittedSpecs(_, _, _, _)
SplittedSpecs(acc, specs, index, deselected) ==
    IF index >= Len(specs) THEN acc
    ELSE SplittedSpecs(
            SplittedSpec(acc, At(specs, index), SplitSeries(At(specs, index)), deselected),
            specs, index + 1, deselected)

\* the value getSplittedSeries returns (lines 711-716)
SplittedSeriesResult(acc) ==
    [splittedSeries |-> acc.splittedSeries,
     seriesCollection |-> acc.seriesCollection,
     xValues |-> IF acc.isOrdinalScale THEN acc.xValues ELSE SortedXValues(acc.xValues)]

\* getSplittedSeries(seriesSpecs, deselectedDataSeries)
GetSplittedSeries(specs, deselected) ==
    SplittedSeriesResult(
        SplittedSpecs([splittedSeries |-> <<>>, seriesCollection |-> <<>>,
                       xValues |-> <<>>, isOrdinalScale |-> FALSE],
                      specs, 0, deselected))

\* dataSeries.get(id) of a Map held as its entries: <<>> stands for undefined,
\* which getRawDataSeries pushes nothing for
SeriesOfSpec(dataSeries, id) ==
    IF \E i \in DOMAIN dataSeries : dataSeries[i].key = id
    THEN dataSeries[CHOOSE i \in DOMAIN dataSeries : dataSeries[i].key = id].value
    ELSE <<>>

\* rawDataSeries of getRawDataSeries(seriesSpecs, dataSeries) (lines 629-661);
\* the counts by series type are left out
RECURSIVE GetRawDataSeries(_, _)
GetRawDataSeries(specs, dataSeries) ==
    IF specs = <<>> THEN <<>>
    ELSE SeriesOfSpec(dataSeries, Head(specs).id)
         \o GetRawDataSeries(Tail(specs), dataSeries)

\* the stacked DataSeries[] of a group in getFormattedDataseries (lines 594-601)
FormatStackedGroup(specs, splitted, percentage, scaleType) ==
    FormatStackedDataSeriesValues(GetRawDataSeries(specs, splitted.splittedSeries),
                                  FALSE, percentage, splitted.xValues, scaleType)

---------------------------------------------------------------------------
(* The inputs of splitSeries: a spec and its data.                         *)

MaxRecords == 2      \* records of the data of a spec

NoAccessors == [k |-> "undefined", items |-> <<>>]
Accessors(items) == [k |-> "array", items |-> items]

PropertyNames == {<<"x">>, <<"g">>, <<"h">>, <<"y">>}

ObjectRecord(x, g, h, y) ==
    [v |-> Obj(0),
     props |-> [name \in PropertyNames |->
                  CASE name = <<"x">> -> x
                    [] name = <<"g">> -> g
                    [] name = <<"h">> -> h
                    [] name = <<"y">> -> y]]

\* the records: objects with every x, with and without the values of the split
\* accessors g and h; two whose y is no number; a null and a number
RecordKinds ==
    {ObjectRecord(x, g, h, Num(2)) :
        x \in {Num(1), Str(<<"a">>), NAN, UNDEFINED, NULL},
        g \in {UNDEFINED, Str(<<"a">>), JsTrue},
        h \in {UNDEFINED, Num(1)}}
    \cup {ObjectRecord(Num(1), Str(<<"a">>), UNDEFINED, y) : y \in {Str(<<"b">>), NULL}}
    \cup {[v |-> v, props |-> EmptyMap] : v \in {NULL, Num(1)}}

\* the record of a kind at a position of the data: an object is told from
\* every other by its position
DatumAt(kind, position) ==
    IF kind.v.k = "object" THEN [kind EXCEPT !.v = Obj(position)] ELSE kind

\* the data of the kinds of records given: the record at each position
DataOf(kinds) == [i \in DOMAIN kinds |-> DatumAt(kinds[i], i)]

SeriesSpec(data, yAccessors, y0Accessors, markSizeAccessor, splitSeriesAccessors) ==
    [id |-> Str(<<"a">>), data |-> data, xAccessor |-> Str(<<"x">>),
     yAccessors |-> yAccessors, y0Accessors |-> y0Accessors,
     markSizeAccessor |-> markSizeAccessor,
     splitSeriesAccessors |-> splitSeriesAccessors]

\* the specs over one data: one y accessor, two, or one listed twice, under no,
\* one or two split accessors, and a banded spec with a mark size accessor
SeriesSpecs(data) ==
    {SeriesSpec(data, yAccessors, NoAccessors, UNDEFINED, splitSeriesAccessors) :
        yAccessors \in {<<Str(<<"y">>)>>, <<Str(<<"y">>), Str(<<"h">>)>>,
                        <<Str(<<"y">>), Str(<<"y">>)>>},
        splitSeriesAccessors \in {<<>>, <<Str(<<"g">>)>>, <<Str(<<"g">>), Str(<<"h">>)>>}}
    \cup {SeriesSpec(data, <<Str(<<"y">>)>>, Accessors(<<Str(<<"h">>)>>), Str(<<"h">>),
                     <<Str(<<"g">>)>>)}

InitSplit ==
    /\ pc = "ready"
    /\ \E n \in 0..MaxRecords :
          \E kinds \in [1..n -> RecordKinds] :
             seriesSpec \in SeriesSpecs(DataOf(kinds))
    /\ splitResult = NULL
    /\ StackIdle /\ KeyIdle /\ ColorIdle /\ PipelineIdle /\ NameIdle

\* a call of splitSeries
CallSplitSeries ==
    /\ pc = "ready"
    /\ splitResult' = SplitSeries(seriesSpec)
    /\ pc' = "split"
    /\ UNCHANGED <<seriesSpec, stackVars, keyVars, colorVars, pipelineVars, nameVars>>

NextSplit == CallSplitSeries

SpecSplit == InitSplit /\ [][NextSplit]_vars

---------------------------------------------------------------------------
(* What the claim about splitSeries is stated with.                        *)

Split == pc = "split"

RecordPositions == 0..(Len(seriesSpec.data) - 1)

\* the points of all the series of the result
SplitPoints ==
    UNION {{splitResult.rawDataSeries[s].data[j] :
                j \in DOMAIN splitResult.rawDataSeries[s].data} :
             s \in DOMAIN splitResult.rawDataSeries}

\* a record has a point in some series: a point holds the record it came from
Contributes(position) ==
    \E point \in SplitPoints : point.datum = At(seriesSpec.data, position).v

ResolvedX(position) ==
    GetAccessorValue(At(seriesSpec.data, position), seriesSpec.xAccessor)

\* (a) the record is not an object
NotAnObject(position) == ~IsObject(At(seriesSpec.data, position))

\* (b) its resolved x is neither a string nor a number
InvalidX(position) == ~IsStringOrNumber(ResolvedX(position))

\* (c) split accessors are declared and none of them resolves to a string or a
\* number on the record
NoSplitValue(position) ==
    /\ Len(seriesSpec.splitSeriesAccessors) > 0
    /\ \A i \in DOMAIN seriesSpec.splitSeriesAccessors :
          ~IsStringOrNumber(PropertyOf(At(seriesSpec.data, position),
                                       seriesSpec.splitSeriesAccessors[i]))

DropRule(position) ==
    NotAnObject(position) \/ InvalidX(position) \/ NoSplitValue(position)

(* C10: a record of the data has no point in any series if and only if (a)  *)
(* it is not an object, or (b) its resolved x is neither a string nor a     *)
(* number, or (c) the spec declares split accessors and none of them        *)
(* resolves to a string or a number on the record; and xValues holds the x  *)
(* of the records that are kept and of no other.                           *)
C10_RecordDropRule ==
    Split =>
        /\ \A position \in RecordPositions :
              ~Contributes(position) <=> DropRule(position)
        /\ {splitResult.xValues[i] : i \in DOMAIN splitResult.xValues}
              = {ResolvedX(position) :
                    position \in {q \in RecordPositions : ~DropRule(q)}}

\* of two objects with the same valid x under the split accessors g and h, the
\* first resolves neither and is dropped, the second resolves h alone and is
\* kept
C10_Witness ==
    /\ Split
    /\ Len(seriesSpec.data) = 2
    /\ Len(seriesSpec.splitSeriesAccessors) = 2
    /\ ~NotAnObject(0) /\ ~InvalidX(0) /\ NoSplitValue(0)
    /\ ~Contributes(0)
    /\ ResolvedX(1) = ResolvedX(0)
    /\ ~IsStringOrNumber(PropertyOf(At(seriesSpec.data, 1), Str(<<"g">>)))
    /\ Contributes(1)
    /\ splitResult.xValues = <<ResolvedX(1)>>

---------------------------------------------------------------------------
(* What the claim about the series of splitSeries is stated with.          *)

YAccessorsUsed == AccessorsUsed(seriesSpec.yAccessors)

\* every (record, y accessor) in the order splitSeries visits them
VisitedPairs ==
    [n \in 1..(Len(seriesSpec.data) * Len(YAccessorsUsed)) |->
        [position |-> (n - 1) \div Len(YAccessorsUsed),
         index |-> (n - 1) % Len(YAccessorsUsed)]]

AcceptedPairs == SelectSeq(VisitedPairs, LAMBDA pair : ~DropRule(pair.position))

AcceptedRecords == {position \in RecordPositions : ~DropRule(position)}

\* the Map of split accessors of a record
SplitMapOf(position) ==
    GetSplitAccessors(At(seriesSpec.data, position), seriesSpec.splitSeriesAccessors)

\* getSeriesKey(specId, the y accessor, the record's split map)
PairKey(pair) ==
    GetSeriesKey([specId |-> seriesSpec.id,
                  yAccessor |-> At(YAccessorsUsed, pair.index),
                  splitAccessors |-> SplitMapOf(pair.position)])

\* the point a record gives under a y accessor
PairPoint(pair) ==
    CleanDatum(At(seriesSpec.data, pair.position), seriesSpec.xAccessor,
               At(YAccessorsUsed, pair.index),
               Y0AccessorAt(seriesSpec.y0Accessors, pair.index),
               seriesSpec.markSizeAccessor)

PairsOfKey(key) == SelectSeq(AcceptedPairs, LAMBDA pair : PairKey(pair) = key)

SeriesOfKey(key) ==
    {s \in DOMAIN splitResult.rawDataSeries : splitResult.rawDataSeries[s].key = key}

\* the points of a series that hold the record at a position
PointsOfRecord(s, position) ==
    {j \in DOMAIN splitResult.rawDataSeries[s].data :
        splitResult.rawDataSeries[s].data[j].datum = At(seriesSpec.data, position).v}

TotalPoints == Cardinality(UNION {{<<s, j>> : j \in DOMAIN splitResult.rawDataSeries[s].data} :
                                    s \in DOMAIN splitResult.rawDataSeries})

(* C11 as claimed: with k y accessors, every accepted record has exactly    *)
(* one point in each of k series, the series whose key getSeriesKey gives   *)
(* for the spec, that y accessor and the split map of the record.          *)
C11_OnePointInEachOfKSeries ==
    Split =>
        \A position \in AcceptedRecords :
            /\ Cardinality({PairKey([position |-> position, index |-> index]) :
                              index \in 0..(Len(YAccessorsUsed) - 1)})
                 = Len(YAccessorsUsed)
            /\ \A index \in 0..(Len(YAccessorsUsed) - 1) :
                  \E s \in SeriesOfKey(PairKey([position |-> position, index |-> index])) :
                      Cardinality(PointsOfRecord(s, position)) = 1

(* C11 as amended: there is one series for every key that getSeriesKey      *)
(* gives for an accepted record and a y accessor, in the order in which    *)
(* the keys first come up, identified by the spec, the y accessor and the  *)
(* split map that first gave the key; its data are the points of the       *)
(* (record, y accessor) pairs with that key, in the order of the records   *)
(* and, within a record, of the y accessors; two y accessors that give one *)
(* key share one series.  The points of all series are k times the         *)
(* accepted records.                                                       *)
C11_FanOutAndGrouping ==
    Split =>
        LET raw == splitResult.rawDataSeries
            FirstPair(key) == PairsOfKey(key)[1]
            FirstIndex(key) ==
                CHOOSE n \in DOMAIN AcceptedPairs :
                    /\ PairKey(AcceptedPairs[n]) = key
                    /\ \A m \in 1..(n - 1) : PairKey(AcceptedPairs[m]) # key
        IN  /\ {raw[s].key : s \in DOMAIN raw}
                 = {PairKey(AcceptedPairs[n]) : n \in DOMAIN AcceptedPairs}
            /\ \A s, t \in DOMAIN raw :
                  s < t => /\ raw[s].key # raw[t].key
                           /\ FirstIndex(raw[s].key) < FirstIndex(raw[t].key)
            /\ \A s \in DOMAIN raw :
                  LET pairs == PairsOfKey(raw[s].key)
                  IN  /\ raw[s].data = [j \in DOMAIN pairs |-> PairPoint(pairs[j])]
                      /\ raw[s].specId = seriesSpec.id
                      /\ raw[s].yAccessor = At(YAccessorsUsed, FirstPair(raw[s].key).index)
                      /\ raw[s].splitAccessors = SplitMapOf(FirstPair(raw[s].key).position)
            /\ TotalPoints = Len(YAccessorsUsed) * Cardinality(AcceptedRecords)

\* two accepted records with one split map under two different y accessors:
\* two series of two points each
C11_Witness ==
    /\ Split
    /\ Len(seriesSpec.yAccessors) = 2
    /\ seriesSpec.yAccessors[1] # seriesSpec.yAccessors[2]
    /\ Len(seriesSpec.splitSeriesAccessors) > 0
    /\ AcceptedRecords = {0, 1}
    /\ SplitMapOf(0) = SplitMapOf(1)
    /\ Len(splitResult.rawDataSeries) = 2
    /\ \A s \in DOMAIN splitResult.rawDataSeries :
          /\ Len(splitResult.rawDataSeries[s].data) = 2
          /\ PointsOfRecord(s, 0) = {1}
          /\ PointsOfRecord(s, 1) = {2}

---------------------------------------------------------------------------
(* The pipeline of a chart: getSplittedSeries over its specs, then the     *)
(* stacked series of getFormattedDataseries.  The specs of a chart share   *)
(* its x scale type and are one group of stacked series.                   *)

MaxPipelineRecords == 2   \* records of the data of all the specs together
MaxRuns == 2              \* runs of the pipeline over the same specs

SpecIds == <<Str(<<"a">>), Str(<<"b">>)>>

\* the records of a chart: two x, two values of the split accessor g, a y
\* that is a number or null
PipelineRecordKinds ==
    {ObjectRecord(x, g, UNDEFINED, y) :
        x \in {Num(1), Num(2)}, g \in {Str(<<"a">>), Str(<<"b">>)}, y \in {Num(3), NULL}}

BasicSeriesSpec(id, data, splitSeriesAccessors, scaleType, sortIndex) ==
    [id |-> id, data |-> data, xAccessor |-> Str(<<"x">>),
     yAccessors |-> <<Str(<<"y">>)>>, y0Accessors |-> NoAccessors,
     markSizeAccessor |-> UNDEFINED,
     splitSeriesAccessors |-> splitSeriesAccessors,
     xScaleType |-> scaleType, sortIndex |-> sortIndex]

PipelineSplits == {<<>>, <<Str(<<"g">>)>>}

\* how many records each of n specs has
RecordCounts(n) ==
    {counts \in [1..n -> 0..MaxPipelineRecords] : SumSeq(counts) <= MaxPipelineRecords}

\* the specs of a chart, with the kinds of the records of each and the split
\* accessors of each
ChartSpecs(kinds, splits, scaleType) ==
    [i \in DOMAIN kinds |->
        BasicSeriesSpec(SpecIds[i], DataOf(kinds[i]), splits[i], scaleType, Num(i))]

\* the chart of a pipeline: its specs, its scale type, percentage or not
InitChart ==
    /\ xScaleType \in {Ordinal, Linear}
    /\ isPercentageMode \in BOOLEAN
    /\ \E n \in 1..Len(SpecIds) :
          \E counts \in RecordCounts(n) :
             \E splits \in [1..n -> PipelineSplits] :
                \E kinds \in UNION {[1..m -> PipelineRecordKinds] : m \in 0..MaxPipelineRecords} :
                   /\ Len(kinds) = SumSeq(counts)
                   /\ seriesSpecs =
                         ChartSpecs([i \in 1..n |->
                                       SubSeq(kinds, SumSeq(SubSeq(counts, 1, i - 1)) + 1,
                                              SumSeq(SubSeq(counts, 1, i)))],
                                    splits, xScaleType)
    /\ dataseries = <<>>
    /\ xValues = <<>>
    /\ scaleToExtent = FALSE
    /\ stackedValues = EmptyMap
    /\ stackedDataSeries = <<>>

\* the spec after a call of splitSeries on it, data reversed in place
SpecAfterSplitSeriesReversed(seriesSpecification) ==
    [seriesSpecification EXCEPT !.data = Reverse(@)]

\* the spec after a call of splitSeries on it: the data is read with forEach,
\* every point is a new object of cleanDatum, and nothing is assigned to a
\* field of the spec or of a record
SpecAfterSplitSeries(seriesSpecification) == seriesSpecification

\* the specs after the loop of getSplittedSeries over them
SpecsAfterGetSplittedSeries(specs) ==
    [i \in DOMAIN specs |-> SpecAfterSplitSeries(specs[i])]

InitPipeline ==
    /\ pc = "ready"
    /\ InitChart
    /\ deselectedDataSeries = <<>>
    /\ splittedSeries = NULL
    /\ runs = <<>>
    /\ KeyIdle /\ ColorIdle /\ SplitIdle /\ NameIdle

\* a run of the pipeline: getSplittedSeries on the specs as they stand, then
\* the stacked series of the result
RunPipeline ==
    /\ Len(runs) < MaxRuns
    /\ splittedSeries' = GetSplittedSeries(seriesSpecs, deselectedDataSeries)
    /\ runs' = Append(runs, [read |-> seriesSpecs,
                             output |-> FormatStackedGroup(seriesSpecs, splittedSeries',
                                                           isPercentageMode, xScaleType)])
    /\ seriesSpecs' = SpecsAfterGetSplittedSeries(seriesSpecs)
    /\ pc' = "ran"
    /\ UNCHANGED <<deselectedDataSeries, stackVars, keyVars, colorVars, splitVars,
                   nameVars>>

NextPipeline == RunPipeline

SpecPipeline == InitPipeline /\ [][NextPipeline]_vars

---------------------------------------------------------------------------
(* What the claim about the pipeline is stated with.                       *)

RanTwice == Len(runs) >= 2

\* the points of an output series that were filled in
FilledPoints(series) == {i \in DOMAIN series.data : series.data[i].filled # <<>>}

---------------------------------------------------------------------------
(* Hiding and showing series: getSplittedSeries with a list of deselected  *)
(* series, then getSeriesColors on the collection it returns.  The chart   *)
(* is first computed with nothing hidden.                                  *)

MaxHidden == 2       \* series of the list of deselected series

\* [...seriesCollection.keys()]
MapKeys(map) == [i \in DOMAIN map |-> map[i].key]

\* the identifiers of the series of a collection
IdentifiersOf(collection) ==
    {collection[i].value.seriesIdentifier : i \in DOMAIN collection}

\* the lists of deselected series: identifiers of the chart, none twice
DeselectionLists(collection) ==
    {q \in UNION {[1..n -> IdentifiersOf(collection)] : n \in 0..MaxHidden} :
        \A i, j \in DOMAIN q : i # j => q[i] # q[j]}

InitDeselect ==
    /\ pc = "ready"
    /\ InitChart
    /\ deselectedDataSeries = <<>>
    /\ splittedSeries = NULL
    /\ runs = <<>>
    /\ seriesCollection = <<>>
    /\ vizColors = Palette
    /\ customColors = EmptyMap
    /\ temporary = EmptyMap
    /\ persisted = EmptyMap
    /\ seriesColorMap = EmptyMap
    /\ KeyIdle /\ SplitIdle /\ NameIdle

\* the series and the colours of the chart computed with a list of deselected
\* series, the first time with none; runs keeps what the first time gave
CallGetSplittedSeries ==
    /\ \E deselected \in (IF runs = <<>> THEN {<<>>}
                          ELSE DeselectionLists(runs[1].seriesCollection)) :
          /\ deselectedDataSeries' = deselected
          /\ splittedSeries' = GetSplittedSeries(seriesSpecs, deselected)
    /\ seriesCollection' = MapKeys(splittedSeries'.seriesCollection)
    /\ seriesColorMap' =
          GetSeriesColors(seriesCollection', [vizColors |-> vizColors], customColors,
                          [temporary |-> temporary, persisted |-> persisted])
    /\ runs' = IF runs = <<>>
               THEN <<[splittedSeries |-> splittedSeries'.splittedSeries,
                       seriesCollection |-> splittedSeries'.seriesCollection,
                       xValues |-> splittedSeries'.xValues,
                       seriesColorMap |-> seriesColorMap']>>
               ELSE runs
    /\ pc' = "splitted"
    /\ UNCHANGED <<seriesSpecs, vizColors, customColors, temporary, persisted,
                   stackVars, keyVars, splitVars, nameVars>>

NextDeselect == CallGetSplittedSeries

SpecDeselect == InitDeselect /\ [][NextDeselect]_vars

---------------------------------------------------------------------------
(* What the claim about hidden series is stated with.                      *)

Splitted == pc = "splitted"

DeselectedKeys == {deselectedDataSeries[i].key : i \in DOMAIN deselectedDataSeries}

\* the series of a list whose key is not deselected
SeriesShown(series) == SelectSeq(series, LAMBDA ds : ds.key \notin DeselectedKeys)

(* C19: whatever the list of deselected series, getSplittedSeries returns  *)
(* the seriesCollection (keys, values, iteration order) and the xValues it *)
(* returns with an empty list, the splittedSeries of every spec are those  *)
(* of the empty list without the series whose key is deselected, and       *)
(* getSeriesColors on the collection gives every series the colour it has  *)
(* when nothing is hidden.                                                 *)
C19_HidingLeavesOthersAlone ==
    Splitted =>
        /\ splittedSeries.seriesCollection = runs[1].seriesCollection
        /\ splittedSeries.xValues = runs[1].xValues
        /\ MapKeys(splittedSeries.splittedSeries) = MapKeys(runs[1].splittedSeries)
        /\ \A i \in DOMAIN splittedSeries.splittedSeries :
              splittedSeries.splittedSeries[i].value =
                 SeriesShown(runs[1].splittedSeries[i].value)
        /\ seriesColorMap = runs[1].seriesColorMap

\* the first of two series is hidden: the second one is the only series left
\* and keeps the second colour of the palette
C19_Witness ==
    /\ Splitted
    /\ Len(seriesCollection) = 2
    /\ DeselectedKeys = {seriesCollection[1]}
    /\ \E i \in DOMAIN splittedSeries.splittedSeries :
          /\ Len(splittedSeries.splittedSeries[i].value) = 1
          /\ splittedSeries.splittedSeries[i].value[1].key = seriesCollection[2]
    /\ \A i \in DOMAIN splittedSeries.splittedSeries :
          \A j \in DOMAIN splittedSeries.splittedSeries[i].value :
             splittedSeries.splittedSeries[i].value[j].key = seriesCollection[2]
    /\ seriesColorMap[seriesCollection[2]] = vizColors[2]

---------------------------------------------------------------------------
(* series.ts: series names.  The name of a spec is [k |-> "undefined"], a  *)
(* string, a function (given as what it returns) or options                *)
(* {names, delimiter}; a string is the sequence of its characters.         *)

SERIES_DELIMITER == Str(<<" ", "-", " ">>)

\* the string of an element in array.join: empty for null and undefined
ElementString(v) == IF IsNullish(v) THEN <<>> ELSE JsToString(v)

\* array.join(delimiter)
ArrayJoin(array, delimiter) ==
    Join([i \in DOMAIN array |-> ElementString(array[i])], JsToString(delimiter))

\* a ?? b
Coalesce(a, b) == IF IsNullish(a) THEN b ELSE a

\* splitAccessors.get(accessor) ?? null (line 733)
SplitAccessorValue(splitAccessors, accessor) ==
    IF \E i \in DOMAIN splitAccessors : splitAccessors[i].key = accessor
    THEN Coalesce(splitAccessors[CHOOSE i \in DOMAIN splitAccessors :
                                    splitAccessors[i].key = accessor].value, NULL)
    ELSE NULL

\* the callback of .map with every option that matches giving its value
OptionLabelOfValue(option, yAccessor, splitAccessors) ==
    IF StrictEq(SplitAccessorValue(splitAccessors, option.accessor), option.value)
    THEN option.value
    ELSE IF StrictEq(yAccessor, option.accessor)
         THEN option.accessor
         ELSE NULL

\* the callback of .map (lines 732-742)
OptionLabel(option, yAccessor, splitAccessors) ==
    IF StrictEq(SplitAccessorValue(splitAccessors, option.accessor), option.value)
    THEN Coalesce(option.name, option.value)
    ELSE IF StrictEq(yAccessor, option.accessor)
         THEN Coalesce(option.name, option.accessor)
         ELSE NULL

\* the callback of .filter: Boolean(d) || d === 0 (line 744)
IsLabel(d) == Truthy(d) \/ StrictEq(d, Num(0))

\* options.names.slice().sort(...) (lines 729-731)
SortedNames(names) == ArraySort([fn |-> "sortIndexOrder"], names)

\* .map(...).filter(...) over the sorted options (lines 732-744)
Labels(sorted, yAccessor, splitAccessors) ==
    SelectSeq([i \in DOMAIN sorted |-> OptionLabel(sorted[i], yAccessor, splitAccessors)],
              IsLabel)

\* getSeriesNameFromOptions(options, { yAccessor, splitAccessors }, delimiter)
GetSeriesNameFromOptions(options, identifier, delimiter) ==
    IF options.names.k = "undefined" THEN NULL
    ELSE JsOr(Str(ArrayJoin(Labels(SortedNames(options.names.items),
                                   identifier.yAccessor, identifier.splitAccessors),
                            delimiter)),
              NULL)

\* nameKeys of getSeriesName (line 774)
NameKeys(identifier, spec) ==
    IF spec.k # "undefined" /\ Len(spec.yAccessors) > 1
    THEN identifier.seriesKeys
    ELSE SubSeq(identifier.seriesKeys, 1, Len(identifier.seriesKeys) - 1)

\* the name of getSeriesName when no custom label is returned (lines 773-791)
DefaultSeriesName(nameKeys, single, spec, delimiter) ==
    IF single \/ Len(nameKeys) = 0 \/ IsNullish(At(nameKeys, 0))
    THEN IF spec.k = "undefined" THEN Str(<<>>)
         ELSE IF /\ spec.splitSeriesAccessors.k # "undefined"
                 /\ Len(nameKeys) > 0
                 /\ ~IsNullish(At(nameKeys, 0))
              THEN Str(ArrayJoin(nameKeys, delimiter))
              ELSE IF spec.name.k = "string" THEN Str(spec.name.s)
                   ELSE Str(JsToString(spec.id))
    ELSE Str(ArrayJoin(nameKeys, delimiter))

\* spec && spec.name && typeof spec.name !== 'string' (line 759)
HasCustomName(spec) ==
    /\ spec.k # "undefined"
    /\ spec.name.k \in {"function", "options"}

\* delimiter after line 764
DelimiterOf(spec) ==
    IF HasCustomName(spec) /\ spec.name.k = "options"
    THEN Coalesce(spec.name.delimiter, SERIES_DELIMITER)
    ELSE SERIES_DELIMITER

\* customLabel (lines 760-766); null where the spec has no custom name
CustomLabel(identifier, spec) ==
    IF ~HasCustomName(spec) THEN NULL
    ELSE IF spec.name.k = "function" THEN spec.name.result
    ELSE GetSeriesNameFromOptions(spec.name, identifier, DelimiterOf(spec))

\* the return of getSeriesName with the custom label computed
SeriesNameWith(customLabel, identifier, single, spec) ==
    IF customLabel # NULL THEN Str(JsToString(customLabel))
    ELSE DefaultSeriesName(NameKeys(identifier, spec), single, spec, DelimiterOf(spec))

\* getSeriesName(seriesIdentifier, hasSingleSeries, isTooltip, spec)
GetSeriesName(identifier, single, isTooltip, spec) ==
    SeriesNameWith(CustomLabel(identifier, spec), identifier, single, spec)

---------------------------------------------------------------------------
(* The inputs of getSeriesName.                                            *)

MaxNames == 2        \* options of the names of a spec

NoName == [k |-> "undefined"]
StringName(chars) == [k |-> "string", s |-> chars]
FunctionName(result) == [k |-> "function", result |-> result]
OptionsName(names, delimiter) == [k |-> "options", names |-> names, delimiter |-> delimiter]

SeriesNameConfig(accessor, value, name, sortIndex) ==
    [accessor |-> accessor, value |-> value, name |-> name, sortIndex |-> sortIndex]

SortIndexes == {UNDEFINED, Num(1), Num(2)}

\* the options: on the split accessor g for the values a and 0, on the y
\* accessor; without a name, with a name, with the empty name
NameConfigs ==
    {SeriesNameConfig(Str(<<"g">>), value, name, sortIndex) :
        value \in {Str(<<"a">>), Num(0)}, name \in {UNDEFINED, Str(<<"n">>)},
        sortIndex \in SortIndexes}
    \cup {SeriesNameConfig(Str(<<"y">>), UNDEFINED, name, sortIndex) :
            name \in {UNDEFINED, Str(<<"m">>), Str(<<>>)}, sortIndex \in SortIndexes}

\* an identifier of a series of the y accessor y with the split accessors given
NamedIdentifier(splitAccessors) ==
    [yAccessor |-> Str(<<"y">>), splitAccessors |-> splitAccessors,
     seriesKeys |-> Append(MapValues(splitAccessors), Str(<<"y">>))]

NamedIdentifiers ==
    {NamedIdentifier(splitAccessors) :
        splitAccessors \in {<<>>, <<Entry(Str(<<"g">>), Str(<<"a">>))>>,
                            <<Entry(Str(<<"g">>), Num(0))>>}}

NamedSpec(name, yAccessors, splitSeriesAccessors) ==
    [k |-> "object", id |-> Str(<<"s">>), name |-> name, yAccessors |-> yAccessors,
     splitSeriesAccessors |-> splitSeriesAccessors]

NoSpec == [k |-> "undefined"]

\* the names of a spec that are not options
PlainNames ==
    {NoName, StringName(<<"t">>), StringName(<<>>), FunctionName(NULL),
     FunctionName(Str(<<"f">>))}

InitName ==
    /\ pc = "ready"
    /\ seriesIdentifier \in NamedIdentifiers
    /\ hasSingleSeries \in BOOLEAN
    /\ \/ seriesSpec = NoSpec
       \/ \E yAccessors \in {<<Str(<<"y">>)>>, <<Str(<<"y">>), Str(<<"z">>)>>} :
             \E name \in PlainNames :
                seriesSpec = NamedSpec(name, yAccessors,
                                       IF seriesIdentifier.splitAccessors = <<>>
                                       THEN NoAccessors ELSE Accessors(<<Str(<<"g">>)>>))
       \/ \E delimiter \in {UNDEFINED, Str(<<"/">>)} :
             \/ seriesSpec = NamedSpec(OptionsName(NoAccessors, delimiter),
                                       <<Str(<<"y">>)>>, NoAccessors)
             \/ \E n \in 0..MaxNames :
                   \E names \in [1..n -> NameConfigs] :
                      seriesSpec = NamedSpec(OptionsName(Accessors(names), delimiter),
                                             <<Str(<<"y">>)>>,
                                             IF seriesIdentifier.splitAccessors = <<>>
                                             THEN NoAccessors
                                             ELSE Accessors(<<Str(<<"g">>)>>))
    /\ splitResult = NULL
    /\ seriesName = NULL
    /\ StackIdle /\ KeyIdle /\ ColorIdle /\ PipelineIdle

\* a call of getSeriesName
CallGetSeriesName ==
    /\ pc = "ready"
    /\ \E isTooltip \in BOOLEAN :
          seriesName' = GetSeriesName(seriesIdentifier, hasSingleSeries, isTooltip,
                                      seriesSpec)
    /\ pc' = "named"
    /\ UNCHANGED <<seriesIdentifier, hasSingleSeries, seriesSpec, splitResult,
                   stackVars, keyVars, colorVars, pipelineVars>>

NextName == CallGetSeriesName

SpecName == InitName /\ [][NextName]_vars

---------------------------------------------------------------------------
(* What the claim about names is stated with.                              *)

Named == pc = "named"

\* the name of the spec is options with a list of names
HasOptions ==
    /\ seriesSpec.k = "object"
    /\ seriesSpec.name.k = "options"
    /\ seriesSpec.name.names.k = "array"

OptionsListed == seriesSpec.name.names.items

\* the options with a sort index, in the order they are listed
WithSortIndex(sortIndex) ==
    SelectSeq(OptionsListed, LAMBDA option : option.sortIndex = sortIndex)

\* ascending sort index, options without one last, ties in listed order
OptionsInOrder == WithSortIndex(Num(1)) \o WithSortIndex(Num(2)) \o WithSortIndex(UNDEFINED)

\* the identifier holds the value of the option for the accessor of the option
MatchesSplitValue(option) ==
    \E i \in DOMAIN seriesIdentifier.splitAccessors :
        /\ seriesIdentifier.splitAccessors[i].key = option.accessor
        /\ seriesIdentifier.splitAccessors[i].value = option.value

\* what an option contributes: at most one label
ContributionOf(option) ==
    IF MatchesSplitValue(option)
    THEN <<IF option.name = UNDEFINED THEN option.value ELSE option.name>>
    ELSE IF option.accessor = seriesIdentifier.yAccessor
         THEN <<IF option.name = UNDEFINED THEN option.accessor ELSE option.name>>
         ELSE <<>>

RECURSIVE ContributionsOf(_)
ContributionsOf(options) ==
    IF options = <<>> THEN <<>>
    ELSE ContributionOf(Head(options)) \o ContributionsOf(Tail(options))

\* the contributions that are not the empty string
NotEmpty(contributions) == SelectSeq(contributions, LAMBDA d : d # Str(<<>>))

ConfiguredDelimiter ==
    IF seriesSpec.name.delimiter = UNDEFINED THEN <<" ", "-", " ">>
    ELSE seriesSpec.name.delimiter.s

\* the contributions as strings, joined with the configured delimiter
JoinedContributions(contributions) ==
    Str(Join([i \in DOMAIN contributions |-> JsToString(contributions[i])],
             ConfiguredDelimiter))

\* the name of the default rule
DefaultName ==
    DefaultSeriesName(NameKeys(seriesIdentifier, seriesSpec), hasSingleSeries,
                      seriesSpec, Str(ConfiguredDelimiter))

(* C13 as claimed: with options for a name, the name is the contributions   *)
(* of the options taken in ascending sortIndex (none last, ties as listed) *)
(* joined with the configured delimiter; an option contributes its name,   *)
(* or its value, when the identifier's split value for its accessor is its *)
(* value, its name or the accessor when its accessor is the y accessor,    *)
(* and nothing otherwise; with no contribution the name is the default.    *)
C13_NameFromOptions ==
    (Named /\ HasOptions) =>
        seriesName = IF ContributionsOf(OptionsInOrder) = <<>> THEN DefaultName
                     ELSE JoinedContributions(ContributionsOf(OptionsInOrder))

(* C13 as amended: as claimed, but a contribution that is the empty string  *)
(* (an empty name) is dropped before the join, and the name is the default *)
(* when every contribution is dropped; the number 0 is kept.               *)
C13_NameFromOptionsNotEmpty ==
    (Named /\ HasOptions) =>
        seriesName = IF NotEmpty(ContributionsOf(OptionsInOrder)) = <<>> THEN DefaultName
                     ELSE JoinedContributions(NotEmpty(ContributionsOf(OptionsInOrder)))

\* the option listed second has the lower sort index and a name for the y
\* accessor, the one listed first gives the split value: the name is m/a
C13_Witness ==
    /\ Named /\ HasOptions
    /\ Len(OptionsListed) = 2
    /\ OptionsListed[1].sortIndex = UNDEFINED /\ OptionsListed[2].sortIndex = Num(1)
    /\ OptionsListed[1].accessor = Str(<<"g">>) /\ OptionsListed[1].name = UNDEFINED
    /\ OptionsListed[2].accessor = Str(<<"y">>)
    /\ seriesSpec.name.delimiter = Str(<<"/">>)
    /\ seriesName = Str(<<"m", "/", "a">>)

===========================================================================
